---- MODULE Spec2Model ----
(***************************************************************************)
(* A model of the brl2brf converter library: the converter base class and  *)
(* its streaming protocol (convert_string / convert / close), the          *)
(* converter_chain composite, the KWB container parser, the Unicode        *)
(* decoding helper with the unicode_to_brf table converter, the reflow     *)
(* engine, and the chain resolver find_converter / find_converter_chain.   *)
(*                                                                         *)
(* Bytes objects are sequences of integers 0..255, Python str values are   *)
(* sequences of code points.  A converter instance is a record holding     *)
(* the instance attributes; a method is an operator from the instance (and *)
(* its arguments) to a result record                                       *)
(*     [self |-> the instance after the call,                              *)
(*      out  |-> the value returned,                                       *)
(*      err  |-> "none" or the name of the exception raised]               *)
(* so that an exception leaves the attributes as they were when it was     *)
(* raised.                                                                 *)
(***************************************************************************)
EXTENDS Integers, Sequences, FiniteSets, TLC

VARIABLES
    converters,   \* converters/__init__.py: the module-level list of converter classes
    request,      \* the arguments of the last find_converter call
    found,        \* what that find_converter call returned
    conv,         \* the converter instance the caller holds
    fed,          \* the bytes passed to convert_string before the first close returned
    output,       \* the concatenation of everything the calls returned
    last,         \* the last call: its operation, what it raised, what it returned
    closes,       \* the number of close calls that returned
    failed,       \* some call on the instance raised
    late,         \* the number of convert_string calls after a close had returned
    file,         \* brl2brf.py convert_file: its arguments, what it wrote to stderr,
                  \* whether it has called sys.exit
    twin          \* two instances one factory made: the objects they consist of,
                  \* and each instance as its own calls alone leave it

vars == <<converters, request, found, conv, fed, output, last, closes, failed, late, file,
          twin>>

(***************************************************************************)
(* Bounds of the model.                                                    *)
(***************************************************************************)
MaxInput == 4        \* total number of bytes passed to one instance before close
MaxChunk == 4        \* longest chunk of one convert_string call
MaxCloses == 2       \* close calls that return, on one instance
MaxLate == 1         \* convert_string calls after a close call has returned
MaxConverters == 3   \* converters in the registry
MaxTable == 2        \* entries of the warning table
MaxWarnings == 2     \* warnings in converter.warnings when handle_warnings runs
MaxText == 6         \* longest first chunk of a text of letters and line breaks
MaxCells == 3        \* Braille cells of a string taken through BRF and back
MaxCalls == 2        \* calls on each of two instances of one factory

(***************************************************************************)
(* Sequence helpers: the bytes / str methods the code uses.                *)
(***************************************************************************)

\* bytes.index / str.index, 1-based; 0 when x does not occur (Python raises).
RECURSIVE IndexFrom(_, _, _)
IndexFrom(s, x, i) ==
    IF i > Len(s) THEN 0
    ELSE IF s[i] = x THEN i
    ELSE IndexFrom(s, x, i + 1)

Index(s, x) == IndexFrom(s, x, 1)

Contains(s, x) == \E i \in 1..Len(s) : s[i] = x

\* s[from:]  (0-based slice start `from`)
Tail0(s, from) == SubSeq(s, from + 1, Len(s))

\* s[0:to]
Head0(s, to) == SubSeq(s, 1, to)

\* bytes.replace(bytes([x]), r) for a one-byte pattern
RECURSIVE ReplaceOne(_, _, _)
ReplaceOne(s, x, r) ==
    IF s = << >> THEN << >>
    ELSE (IF Head(s) = x THEN r ELSE <<Head(s)>>) \o ReplaceOne(Tail(s), x, r)

\* all sequences over S of length at most n
SeqUpTo(S, n) == UNION { [1..k -> S] : k \in 0..n }

(***************************************************************************)
(* Byte values.                                                            *)
(***************************************************************************)
LF == 10
CR == 13
SPACE == 32
LETTER_A == 65
SECTION_SEPARATOR == 26
TEXT_SEPARATOR == 2
HEADER_LENGTH == 512
BRAILLE_FIRST == 10240
BRAILLE_EIGHT_DOT == 10304
BRAILLE_END == 10496
\* a byte outside READABLE_CHARACTERS that is no separator
BINARY_BYTE == 1

(***************************************************************************)
(* converter: the base class (converters/converter.py).                    *)
(***************************************************************************)

\* converter.__init__ and the subclasses' __init__: every attribute an
\* instance of any class can carry, with the value the constructors give.
\* class is the Python class of the instance (what method calls dispatch
\* on), name its name attribute.
NewConverter(class, name) ==
    [ class |-> class,
      name |-> name,
      input_buffer |-> << >>,
      warnings |-> << >>,
      closed |-> FALSE,
      \* kwb_to_brf
      autolinebreak_str |-> <<SPACE>>,
      header |-> << >>,
      stage |-> 0,
      \* UnicodeConverter
      auto_encoding |-> FALSE,
      input_encoding |-> "UTF-8",
      output_encoding |-> "UTF-8",
      \* unicode_to_brf
      eight_dot_behavior |-> "warn",
      \* reflow
      line_length |-> 40,
      word_wrap |-> "wrap",
      linebreaks |-> "double",
      split_str |-> <<10276>>,
      text_buffer |-> << >>,
      \* converter_chain
      converters |-> << >> ]

Ok(self, out) == [self |-> self, out |-> out, err |-> "none"]

Raise(self, exc) == [self |-> self, out |-> << >>, err |-> exc]

\* converter.warning: append (self.name, code, description).  A description
\* is the pair <<text, n>>, n being the number an f-string puts into it.
warning(self, warning_code, warning_description) ==
    [self EXCEPT !.warnings = Append(@, <<self.name, warning_code, warning_description>>)]

clear_warnings(self) == [self EXCEPT !.warnings = << >>]

\* converter.close: raises on a closed instance, else returns b"";
\* the assignment self.closed = True follows the return and never runs.
converter_close(self) ==
    IF self.closed THEN Raise(self, "ConverterError")
    ELSE Ok(self, << >>)

(***************************************************************************)
(* brl_to_brf (converters/brl.py): a table converter on the base close.    *)
(***************************************************************************)

\* bytes.upper() followed by the five replacements
brl_byte(b) ==
    LET u == IF b >= 97 /\ b <= 122 THEN b - 32 ELSE b
    IN CASE u = 125 -> 93
         [] u = 123 -> 91
         [] u = 96 -> 64
         [] u = 126 -> 94
         [] u = 124 -> 92
         [] OTHER -> u

brl_to_brf_convert(self, brl) ==
    Ok(self, [i \in 1..Len(brl) |-> brl_byte(brl[i])])

(***************************************************************************)
(* kwb_to_brf (converters/kwb.py).                                         *)
(***************************************************************************)

\* kwb_to_brf.__init__: the linebreaks option chooses autolinebreak_str
kwb_to_brf_init(linebreaks) ==
    [NewConverter("kwb_to_brf", "kwb_to_brf") EXCEPT
        !.autolinebreak_str =
            CASE linebreaks = "space" -> <<SPACE>>
              [] linebreaks = "delete" -> << >>
              [] linebreaks = "retain" -> <<CR, LF>>]

\* READABLE_CHARACTERS: LF, CR and the bytes from " " to "_"
READABLE_CHARACTERS == {LF, CR} \cup (32..95)

convert_section(self, kwb) ==
    IF \E ci \in 1..Len(kwb) : kwb[ci] \notin READABLE_CHARACTERS
    THEN << >>
    ELSE ReplaceOne(ReplaceOne(kwb, CR, self.autolinebreak_str), LF, <<CR, LF>>)

\* "converted + self.convert(...)": r is what the recursive call gave
prepend(converted, r) ==
    [r EXCEPT !.out = IF r.err = "none" THEN converted \o @ ELSE @]

\* the header warning raised whatever the length of the header
check_header_always(self) ==
    warning(self, "kwb_format_unexpected",
            <<"KWB header has unexpected length", Len(self.header)>>)

\* stage 0, on the section separator: the header length check
check_header(self) ==
    IF Len(self.header) # HEADER_LENGTH
    THEN warning(self, "kwb_format_unexpected",
                 <<"KWB header has unexpected length", Len(self.header)>>)
    ELSE self

\* stage 2 with the data after the content section passed over in silence
trailing_data_ignored(self, kwb) == Ok(self, << >>)

\* stage 2: "if len(kwb) > 0: self.warning(...)", "return b''"
trailing_data(self, kwb) ==
    IF Len(kwb) > 0
    THEN Ok(warning(self, "kwb_format_unexpected",
                    <<"Unexpected data found after content section", 0>>), << >>)
    ELSE Ok(self, << >>)

RECURSIVE kwb_to_brf_convert(_, _)
kwb_to_brf_convert(self, kwb) ==
    CASE self.stage = 0 ->
            IF Contains(kwb, SECTION_SEPARATOR)
            THEN kwb_to_brf_convert(
                    check_header([self EXCEPT
                        !.header = @ \o Head0(kwb, Index(kwb, SECTION_SEPARATOR) - 1),
                        !.stage = 1]),
                    Tail0(kwb, Index(kwb, SECTION_SEPARATOR)))
            ELSE Ok([self EXCEPT !.header = @ \o kwb], << >>)
      [] self.stage = 1 ->
            IF Contains(kwb, TEXT_SEPARATOR)
            THEN prepend(convert_section(self, self.input_buffer
                                               \o Head0(kwb, Index(kwb, TEXT_SEPARATOR) - 1)),
                         kwb_to_brf_convert([self EXCEPT !.input_buffer = << >>],
                                            Tail0(kwb, Index(kwb, TEXT_SEPARATOR))))
            ELSE IF Contains(kwb, SECTION_SEPARATOR)
            THEN prepend(convert_section(self, self.input_buffer
                                               \o Head0(kwb, Index(kwb, SECTION_SEPARATOR) - 1)),
                         kwb_to_brf_convert([self EXCEPT !.input_buffer = << >>, !.stage = 2],
                                            Tail0(kwb, Index(kwb, SECTION_SEPARATOR))))
            ELSE Ok([self EXCEPT !.input_buffer = @ \o kwb], << >>)
      [] self.stage = 2 -> trailing_data(self, kwb)
      [] OTHER -> Raise(self, "ConverterError")

\* kwb_to_brf.close made to start over with the header
kwb_to_brf_close_restart(self) ==
    Ok([self EXCEPT !.closed = TRUE, !.stage = 0], << >>)

\* kwb_to_brf.close: closed is set, then the buffer is passed to convert
kwb_to_brf_close(self) ==
    IF self.input_buffer # << >>
    THEN kwb_to_brf_convert([self EXCEPT !.closed = TRUE], self.input_buffer)
    ELSE Ok([self EXCEPT !.closed = TRUE], << >>)

(***************************************************************************)
(* bytes.decode / str.encode for UTF-8, as CPython does them, on one-byte   *)
(* characters (below 0x80), two-byte characters (lead 0xC2..0xDF) and the   *)
(* three-byte characters with lead 0xE1..0xEC (which hold U+2800..U+28FF).  *)
(* A failed decode gives the UnicodeDecodeError's reason and start.         *)
(* UTF-16 and UTF-32 are decoded in the byte order of the machine (little   *)
(* endian) on data without a byte order mark and without surrogates.        *)
(***************************************************************************)

IsContinuation(b) == b >= 128 /\ b <= 191

\* the number of bytes the character with this lead byte takes; 0 for a
\* byte that cannot start a character
Utf8Length(b) ==
    IF b < 128 THEN 1
    ELSE IF b >= 194 /\ b <= 223 THEN 2
    ELSE IF b >= 225 /\ b <= 236 THEN 3
    ELSE 0

Utf8CodePoint(bs) ==
    CASE Len(bs) = 1 -> bs[1]
      [] Len(bs) = 2 -> (bs[1] - 192) * 64 + (bs[2] - 128)
      [] Len(bs) = 3 -> (bs[1] - 224) * 4096 + (bs[2] - 128) * 64 + (bs[3] - 128)

\* a UnicodeDecodeError (ok = FALSE) or the decoded text (ok = TRUE)
DecodeError(reason, start) == [ok |-> FALSE, text |-> << >>, reason |-> reason, start |-> start]

Decoded(text) == [ok |-> TRUE, text |-> text, reason |-> "", start |-> 0]

\* the bytes of data[i..] the character starting at i can use, at most n
Utf8Available(data, i, n) ==
    IF i + n - 1 <= Len(data) THEN n ELSE Len(data) - i + 1

RECURSIVE utf8_decode_from(_, _, _)
utf8_decode_from(data, i, text) ==
    IF i > Len(data) THEN Decoded(text)
    ELSE IF Utf8Length(data[i]) = 0
    THEN DecodeError("invalid start byte", i - 1)
    ELSE IF \E k \in 1..(Utf8Available(data, i, Utf8Length(data[i])) - 1) :
                ~IsContinuation(data[i + k])
    THEN DecodeError("invalid continuation byte", i - 1)
    ELSE IF Utf8Available(data, i, Utf8Length(data[i])) < Utf8Length(data[i])
    THEN DecodeError("unexpected end of data", i - 1)
    ELSE utf8_decode_from(data, i + Utf8Length(data[i]),
             Append(text, Utf8CodePoint(SubSeq(data, i, i + Utf8Length(data[i]) - 1))))

\* UTF-16: two bytes a character; a single byte left over is truncated data
RECURSIVE utf16_decode_from(_, _, _)
utf16_decode_from(data, i, text) ==
    IF i > Len(data) THEN Decoded(text)
    ELSE IF i = Len(data) THEN DecodeError("truncated data", i - 1)
    ELSE utf16_decode_from(data, i + 2, Append(text, data[i] + 256 * data[i + 1]))

\* the four bytes at i hold a value below 0x110000
Utf32InRange(data, i) == data[i + 3] = 0 /\ data[i + 2] <= 16

\* the value of four bytes that are in range
Utf32CodePoint(data, i) == data[i] + 256 * data[i + 1] + 65536 * data[i + 2]

\* UTF-32: four bytes a character, which must be below 0x110000
RECURSIVE utf32_decode_from(_, _, _)
utf32_decode_from(data, i, text) ==
    IF i > Len(data) THEN Decoded(text)
    ELSE IF i + 3 > Len(data) THEN DecodeError("truncated data", i - 1)
    ELSE IF ~Utf32InRange(data, i)
    THEN DecodeError("code point not in range(0x110000)", i - 1)
    ELSE utf32_decode_from(data, i + 4, Append(text, Utf32CodePoint(data, i)))

\* data.decode(encoding=...)
decode(data, encoding) ==
    CASE encoding = "UTF-8" -> utf8_decode_from(data, 1, << >>)
      [] encoding = "UTF-16" -> utf16_decode_from(data, 1, << >>)
      [] encoding = "UTF-32" -> utf32_decode_from(data, 1, << >>)

utf8_encode_char(cn) ==
    IF cn < 128 THEN <<cn>>
    ELSE IF cn < 2048 THEN <<192 + (cn \div 64), 128 + (cn % 64)>>
    ELSE IF cn < 65536
    THEN <<224 + (cn \div 4096), 128 + ((cn \div 64) % 64), 128 + (cn % 64)>>
    ELSE <<240 + (cn \div 262144), 128 + ((cn \div 4096) % 64),
           128 + ((cn \div 64) % 64), 128 + (cn % 64)>>

RECURSIVE utf8_encode(_)
utf8_encode(text) ==
    IF text = << >> THEN << >>
    ELSE utf8_encode_char(Head(text)) \o utf8_encode(Tail(text))

\* text.encode(encoding)
encode(text, encoding) ==
    CASE encoding = "UTF-8" -> utf8_encode(text)

(***************************************************************************)
(* UnicodeConverter (converters/unicode.py).                               *)
(***************************************************************************)

IsTruncation(reason) ==
    reason = "unexpected end of data" \/ reason = "truncated data"

\* count_unicode_braille_chars
RECURSIVE count_unicode_braille_chars(_)
count_unicode_braille_chars(data) ==
    IF data = << >> THEN 0
    ELSE (IF Head(data) >= BRAILLE_FIRST /\ Head(data) < BRAILLE_END THEN 1 ELSE 0)
         + count_unicode_braille_chars(Tail(data))

\* guess_encoding_of: an entry of candidates; failed stands for the
\* UnicodeDecodeError kept in the entry instead of None
Candidate(encoding, text, ude) ==
    [encoding |-> encoding, text |-> text, failed |-> ude]

\* the inner try, d being what data[0:ude.start].decode gave
candidate_prefix(encoding, d) ==
    IF d.ok THEN Candidate(encoding, d.text, FALSE) ELSE Candidate(encoding, << >>, TRUE)

\* the outer try, d being what data.decode gave
candidate_of(encoding, data, d) ==
    IF d.ok THEN Candidate(encoding, d.text, FALSE)
    ELSE IF IsTruncation(d.reason)
    THEN candidate_prefix(encoding, decode(Head0(data, d.start), encoding))
    ELSE Candidate(encoding, << >>, TRUE)

ENCODINGS == <<"UTF-8", "UTF-16", "UTF-32">>

candidates(data) ==
    [k \in 1..Len(ENCODINGS) |->
        candidate_of(ENCODINGS[k], data, decode(data, ENCODINGS[k]))]

\* max(candidates, key=...): the first candidate no other one scores above
max_candidate(cs) ==
    cs[CHOOSE k \in 1..Len(cs) :
        /\ \A j \in 1..Len(cs) :
              count_unicode_braille_chars(cs[j].text)
                  <= count_unicode_braille_chars(cs[k].text)
        /\ \A j \in 1..(k - 1) :
              count_unicode_braille_chars(cs[j].text)
                  < count_unicode_braille_chars(cs[k].text)]

\* the end of guess_encoding_of, options being the indexes of the candidates
\* without an error
guess_among(cs, options) ==
    IF Cardinality(options) = 1
    THEN [encoding |-> cs[CHOOSE k \in options : TRUE].encoding, err |-> "none"]
    ELSE IF options = {}
    THEN [encoding |-> "None", err |-> "ConverterError"]
    ELSE [encoding |-> max_candidate(cs).encoding, err |-> "none"]

guess_of(cs) == guess_among(cs, { k \in 1..Len(cs) : ~cs[k].failed })

\* guess_encoding_of(data, count_unicode_braille_chars)
guess_encoding_of(data) == guess_of(candidates(data))

\* unicode_decode.  The result carries isNone: the call returned None (it
\* fell off the end of the function) instead of a str.
DecodeResult(self, text, isNone, err) ==
    [self |-> self, out |-> text, isNone |-> isNone, err |-> err]

\* the end of the truncation branch, r being what the recursive call on
\* the clean prefix returned and tail being all_data[ude.start:]
decode_retain(r, tail) ==
    IF r.err # "none" THEN r
    ELSE DecodeResult([r.self EXCEPT !.input_buffer = tail], r.out, r.isNone, "none")

RECURSIVE unicode_decode_seen(_, _, _)

\* the auto_encoding branch, g being what guess_encoding_of gave
decode_guessed(self, data, g) ==
    IF g.err # "none" THEN DecodeResult(self, << >>, FALSE, g.err)
    ELSE unicode_decode_seen([self EXCEPT !.input_encoding = g.encoding], data, {})

\* the try block of unicode_decode, d being what all_data.decode gave: the
\* text, or the UnicodeDecodeError.  Only a truncation with ude.start > 0
\* is handled; in every other case the function ends without a return.
decode_all(self, all_data, d, seen) ==
    IF d.ok
    THEN DecodeResult([self EXCEPT !.input_buffer = << >>], d.text, FALSE, "none")
    ELSE IF IsTruncation(d.reason) /\ d.start > 0
    THEN decode_retain(unicode_decode_seen(self, Head0(all_data, d.start), seen),
                       Tail0(all_data, d.start))
    ELSE DecodeResult(self, << >>, TRUE, "none")

\* unicode_decode, seen being the arguments of the calls it is nested in:
\* the instance is the same in all of them, so a call with an argument seen
\* before recurses until Python raises RecursionError
unicode_decode_seen(self, data, seen) ==
    IF data = << >> THEN DecodeResult(self, << >>, FALSE, "none")
    ELSE IF data \in seen THEN DecodeResult(self, << >>, FALSE, "RecursionError")
    ELSE IF self.input_encoding # "None"
    THEN decode_all(self, self.input_buffer \o data,
                    decode(self.input_buffer \o data, self.input_encoding),
                    seen \cup {data})
    ELSE IF self.auto_encoding
    THEN decode_guessed(self, data, guess_encoding_of(data))
    ELSE DecodeResult(self, << >>, FALSE, "ConverterError")

\* unicode_decode guessing the encoding again on every call of an
\* instance made with input_encoding "auto"
unicode_decode_reguess(self, data) ==
    unicode_decode_seen(
        [self EXCEPT !.input_encoding = IF self.auto_encoding THEN "None" ELSE @],
        data, {})

unicode_decode(self, data) == unicode_decode_seen(self, data, {})

(***************************************************************************)
(* unicode_to_brf (converters/brf.py).                                     *)
(***************************************************************************)

\* brf_table_chars, as code points
brf_table_chars ==
    << 32, 65, 49, 66, 39, 75, 50, 76, 64, 67, 73, 70, 47, 77, 83, 80,
       34, 69, 51, 72, 57, 79, 54, 82, 94, 68, 74, 71, 62, 78, 84, 81,
       44, 42, 53, 60, 45, 85, 56, 86, 46, 37, 91, 36, 43, 88, 33, 38,
       59, 58, 52, 92, 48, 90, 55, 40, 95, 63, 87, 93, 35, 89, 41, 61 >>


\* the loop of unicode_to_brf.convert over the decoded characters:
\* returns the instance (warnings added) and the text built
RECURSIVE unicode_to_brf_chars(_, _, _)
unicode_to_brf_chars(self, text, brf) ==
    IF text = << >> THEN [self |-> self, brf |-> brf]
    ELSE LET cn == Head(text)
             rest == Tail(text)
         IN IF cn < BRAILLE_FIRST \/ cn >= BRAILLE_END
            THEN unicode_to_brf_chars(self, rest, Append(brf, cn))
            ELSE IF cn >= BRAILLE_EIGHT_DOT
            THEN CASE self.eight_dot_behavior = "warn" ->
                        unicode_to_brf_chars(
                            warning(self, "8_to_6_dot_conversion",
                                    <<"The character cannot be directly converted to BRF", cn>>),
                            rest, brf)
                   [] self.eight_dot_behavior = "delete" ->
                        unicode_to_brf_chars(self, rest, brf)
                   [] self.eight_dot_behavior = "strip" ->
                        unicode_to_brf_chars(self, rest,
                            Append(brf, brf_table_chars[((cn - BRAILLE_FIRST) % Len(brf_table_chars)) + 1]))
                   [] self.eight_dot_behavior = "bypass" ->
                        unicode_to_brf_chars(self, rest, Append(brf, cn))
                   [] OTHER -> unicode_to_brf_chars(self, rest, brf)
            ELSE unicode_to_brf_chars(self, rest,
                                      Append(brf, brf_table_chars[(cn - BRAILLE_FIRST) + 1]))

\* "return brf.encode(self.output_encoding)", c being what the loop left
unicode_to_brf_encode(c) == Ok(c.self, encode(c.brf, c.self.output_encoding))

\* unicode_to_brf.convert, d being what unicode_decode returned:
\* iterating over None raises TypeError
unicode_to_brf_text(d) ==
    IF d.err # "none" THEN Raise(d.self, d.err)
    ELSE IF d.isNone THEN Raise(d.self, "TypeError")
    ELSE unicode_to_brf_encode(unicode_to_brf_chars(d.self, d.out, << >>))

unicode_to_brf_convert(self, unicode) == unicode_to_brf_text(unicode_decode(self, unicode))

unicode_to_brf_init(input_encoding, eight_dot_characters) ==
    [NewConverter("unicode_to_brf", "unicode_to_brf") EXCEPT
        !.auto_encoding = (input_encoding = "auto"),
        !.input_encoding = IF input_encoding # "auto" THEN input_encoding ELSE "None",
        !.eight_dot_behavior = eight_dot_characters]

(***************************************************************************)
(* brf_to_unicode (converters/brf.py).                                     *)
(***************************************************************************)

\* UnicodeConverter.__init__ without options: the input encoding is "auto"
brf_to_unicode_init ==
    [NewConverter("brf_to_unicode", "brf_to_unicode") EXCEPT
        !.auto_encoding = TRUE,
        !.input_encoding = "None"]

\* the cell after the one the table gives
brf_to_unicode_char_next(c) ==
    IF Contains(brf_table_chars, c)
    THEN BRAILLE_FIRST + Index(brf_table_chars, c)
    ELSE c

\* a byte of the table gives its Braille cell, any other byte itself
brf_to_unicode_char(c) ==
    IF Contains(brf_table_chars, c)
    THEN BRAILLE_FIRST + (Index(brf_table_chars, c) - 1)
    ELSE c

brf_to_unicode_convert(self, brf) ==
    Ok(self, encode([i \in 1..Len(brf) |-> brf_to_unicode_char(brf[i])],
                    self.output_encoding))

\* brf_to_unicode.close
brf_to_unicode_close(self) == Ok([self EXCEPT !.closed = TRUE], << >>)

(***************************************************************************)
(* reflow (converters/reflow.py).                                          *)
(***************************************************************************)

BRAILLE_BLANK == 10240
SPLIT_CHARACTER == 10276
DEFAULT_LINE_LENGTH == 40

blank_chars == {SPACE, BRAILLE_BLANK, LF, CR}

linebreak_str == <<CR, LF>>

space_char == SPACE

IsBreak(c) == c = CR \/ c = LF

\* reflow.__init__
reflow_init(input_encoding, line_length, word_wrap, linebreaks) ==
    [NewConverter("reflow", "reflow") EXCEPT
        !.auto_encoding = (input_encoding = "auto"),
        !.input_encoding = IF input_encoding # "auto" THEN input_encoding ELSE "None",
        !.line_length = line_length,
        !.word_wrap = word_wrap,
        !.linebreaks = linebreaks,
        !.split_str = <<SPLIT_CHARACTER>>,
        !.text_buffer = << >>]

\* converter_options.get(key, default); a dict is a function on its keys
dict_get(d, key, default) == IF key \in DOMAIN d THEN d[key] ELSE default

\* make_converter_instance of get_converter("reflow", generic_options,
\* converter_options): reflow(generic_options, converter_options), every
\* option read with its default
make_converter_instance(converter_options) ==
    Ok(reflow_init(dict_get(converter_options, "input_encoding", "auto"),
                   dict_get(converter_options, "line_length", DEFAULT_LINE_LENGTH),
                   dict_get(converter_options, "word_wrap", "wrap"),
                   dict_get(converter_options, "linebreaks", "double")),
       << >>)

\* UnicodeConverter.unicode_encode, which reflow.convert calls
unicode_encode(self, text) == encode(text, self.output_encoding)

\* s[a:b] of Python for 0 <= a and any b: a negative b counts from the end
PySlice(s, a, b) ==
    LET hi == IF b < 0 THEN (IF Len(s) + b < 0 THEN 0 ELSE Len(s) + b)
              ELSE (IF b > Len(s) THEN Len(s) ELSE b)
    IN SubSeq(s, a + 1, hi)

\* s[a:] of Python, a possibly negative
PyFrom(s, a) ==
    LET lo == IF a < 0 THEN (IF Len(s) + a < 0 THEN 0 ELSE Len(s) + a) ELSE a
    IN SubSeq(s, lo + 1, Len(s))

\* text.replace("\r\n", " ").replace("\n", " ")
RECURSIVE ReplaceCRLF(_)
ReplaceCRLF(s) ==
    IF s = << >> THEN << >>
    ELSE IF Len(s) >= 2 /\ s[1] = CR /\ s[2] = LF
    THEN <<space_char>> \o ReplaceCRLF(Tail0(s, 2))
    ELSE <<Head(s)>> \o ReplaceCRLF(Tail(s))

remove_linebreaks(s) == ReplaceOne(ReplaceCRLF(s), LF, <<space_char>>)

\* re.sub("([^\n\r])(\r?\n)([^\n\r])", "\\1 \\3", s): the matches are found
\* left to right and do not overlap
RECURSIVE double_sub(_)
double_sub(s) ==
    IF s = << >> THEN << >>
    ELSE IF Len(s) >= 4 /\ ~IsBreak(s[1]) /\ s[2] = CR /\ s[3] = LF /\ ~IsBreak(s[4])
    THEN <<s[1], space_char, s[4]>> \o double_sub(Tail0(s, 4))
    ELSE IF Len(s) >= 3 /\ ~IsBreak(s[1]) /\ s[2] = LF /\ ~IsBreak(s[3])
    THEN <<s[1], space_char, s[3]>> \o double_sub(Tail0(s, 3))
    ELSE <<Head(s)>> \o double_sub(Tail(s))

\* the index i the loop "while i > 0 and text_buffer[i] in '\r\n'" ends with
RECURSIVE suffix_index(_, _)
suffix_index(s, i) ==
    IF i > 0 /\ IsBreak(s[i + 1]) THEN suffix_index(s, i - 1) ELSE i

double_linebreaks(s) ==
    LET i == suffix_index(s, Len(s) - 1)
    IN IF i < 0 THEN s
       ELSE double_sub(Head0(s, i)) \o Tail0(s, i)

\* the first loop of the explicit-break case: skip the consecutive breaks
RECURSIVE skip_breaks(_, _)
skip_breaks(s, nli) ==
    IF nli < Len(s) /\ IsBreak(s[nli + 1]) THEN skip_breaks(s, nli + 1) ELSE nli

\* the scan of word_wrap = wrap: the greatest ci <= start with a blank
\* character, -1 when there is none
RECURSIVE wrap_index(_, _)
wrap_index(s, ci) ==
    IF ci < 0 THEN -1
    ELSE IF s[ci + 1] \in blank_chars THEN ci
    ELSE wrap_index(s, ci - 1)

\* nli: the index of the first "\n", replaced by that of the first "\r"
\* when it is smaller; -1 when the buffer holds no "\n"
first_break(tb) ==
    IF Contains(tb, CR) /\ Index(tb, CR) < Index(tb, LF)
    THEN Index(tb, CR) - 1
    ELSE Index(tb, LF) - 1

\* a line [line, rest]: the text appended to lines and the buffer left
Line(line, rest) == [line |-> line, rest |-> rest]

\* the split made at line_length, with no room left for the join marker
split_line_full(self, tb, ll) ==
    Line(PySlice(tb, 0, self.line_length) \o self.split_str \o linebreak_str,
         PyFrom(tb, self.line_length))

\* "ll = self.line_length - len(self.split_str)" and the split at ll
split_line(self, tb, ll) ==
    Line(PySlice(tb, 0, ll) \o self.split_str \o linebreak_str, PyFrom(tb, ll))

\* the explicit-break case, n being nli after the skip of the breaks
retain_line(tb, n) == Line(Head0(tb, n), Tail0(tb, n))

cut_line(tb, L) == Line(Head0(tb, L) \o linebreak_str, Tail0(tb, L))

\* word_wrap = wrap splitting with the join marker whatever the scan found
wrap_line_forced(self, tb, ci) ==
    split_line(self, tb, self.line_length - Len(self.split_str))

\* word_wrap = wrap, ci being the index the backward scan ends with
wrap_line(self, tb, ci) ==
    IF ci >= 0
    THEN Line(Head0(tb, ci) \o linebreak_str, Tail0(tb, ci + 1))
    ELSE split_line(self, tb, self.line_length - Len(self.split_str))

\* one iteration of "while len(self.text_buffer) > self.line_length"
reflow_line(self, tb) ==
    IF first_break(tb) # -1 /\ first_break(tb) < self.line_length
    THEN retain_line(tb, skip_breaks(tb, first_break(tb)))
    ELSE CASE self.word_wrap = "cut" -> cut_line(tb, self.line_length)
           [] self.word_wrap = "split" ->
                 IF tb[self.line_length + 1] \in blank_chars
                 THEN cut_line(tb, self.line_length)
                 ELSE split_line(self, tb, self.line_length - Len(self.split_str))
           [] self.word_wrap = "wrap" ->
                 wrap_line(self, tb, wrap_index(tb, self.line_length))
           [] OTHER -> Line(<< >>, tb)

\* the while loop; an iteration that leaves the buffer as long as it was
\* repeats for ever, which the result reports as "nontermination"
RECURSIVE reflow_lines(_, _, _)
reflow_lines(self, tb, lines) ==
    IF Len(tb) <= self.line_length
    THEN [tb |-> tb, lines |-> lines, err |-> "none"]
    ELSE IF Len(reflow_line(self, tb).rest) >= Len(tb)
    THEN [tb |-> tb, lines |-> lines, err |-> "nontermination"]
    ELSE reflow_lines(self, reflow_line(self, tb).rest, lines \o reflow_line(self, tb).line)

\* the line break normalisation at the head of reflow.convert
normalize_linebreaks(self, tb) ==
    CASE self.linebreaks = "remove" -> remove_linebreaks(tb)
      [] self.linebreaks = "double" -> double_linebreaks(tb)
      [] OTHER -> tb

\* the end of reflow.convert, w being what the while loop left
reflow_emit(self, w, closing) ==
    IF w.err # "none"
    THEN Raise([self EXCEPT !.text_buffer = w.tb], w.err)
    ELSE IF closing
    THEN Ok([self EXCEPT !.text_buffer = << >>], unicode_encode(self, w.lines \o w.tb))
    ELSE Ok([self EXCEPT !.text_buffer = w.tb], unicode_encode(self, w.lines))

\* reflow.convert from "self.text_buffer += ..." on, d being what
\* unicode_decode returned: adding None to a str raises TypeError
reflow_text(d, closing) ==
    IF d.err # "none" THEN Raise(d.self, d.err)
    ELSE IF d.isNone THEN Raise(d.self, "TypeError")
    ELSE reflow_emit(d.self,
                     reflow_lines(d.self,
                                  normalize_linebreaks(d.self, d.self.text_buffer \o d.out),
                                  << >>),
                     closing)

reflow_convert(self, data, closing) == reflow_text(unicode_decode(self, data), closing)

\* reflow.close: closed is not set
reflow_close(self) == reflow_convert(self, << >>, TRUE)

(***************************************************************************)
(* Method dispatch, convert_string and converter_chain                     *)
(* (converters/converter.py).                                              *)
(***************************************************************************)

brl_to_brf_init == NewConverter("brl_to_brf", "brl_to_brf")

\* converter_chain.__init__: the chain keeps the name "unnamed" of converter
converter_chain_init(cs) ==
    [NewConverter("converter_chain", "unnamed") EXCEPT !.converters = cs]

\* self.convert(s) on an instance of a class other than converter_chain
simple_convert(self, s) ==
    CASE self.class = "brl_to_brf" -> brl_to_brf_convert(self, s)
      [] self.class = "kwb_to_brf" -> kwb_to_brf_convert(self, s)
      [] self.class = "unicode_to_brf" -> unicode_to_brf_convert(self, s)
      [] self.class = "brf_to_unicode" -> brf_to_unicode_convert(self, s)
      [] self.class = "reflow" -> reflow_convert(self, s, FALSE)

\* the end of UnicodeConverter.close, r being what self.convert returned
set_closed(r) ==
    IF r.err # "none" THEN r
    ELSE Ok([r.self EXCEPT !.closed = TRUE], r.out)

\* UnicodeConverter.close
UnicodeConverter_close(self) ==
    set_closed(simple_convert([self EXCEPT !.input_buffer = << >>], self.input_buffer))

\* self.close() on an instance of a class other than converter_chain
simple_close(self) ==
    CASE self.class = "brl_to_brf" -> converter_close(self)
      [] self.class = "kwb_to_brf" -> kwb_to_brf_close(self)
      [] self.class = "unicode_to_brf" -> UnicodeConverter_close(self)
      [] self.class = "brf_to_unicode" -> brf_to_unicode_close(self)
      [] self.class = "reflow" -> reflow_close(self)

\* converter.convert_string on a member of a chain (the chunks of the
\* model are always bytes)
member_convert_string(self, s) ==
    IF self.closed THEN Raise(self, "ConverterError")
    ELSE simple_convert(self, s)

\* the loop over c.warnings with the chain's own name as the source
RECURSIVE chain_collect_relabel(_, _)
chain_collect_relabel(self, ws) ==
    IF ws = << >> THEN self
    ELSE chain_collect_relabel(
            [self EXCEPT !.warnings = Append(@, <<self.name, Head(ws)[2], Head(ws)[3]>>)],
            Tail(ws))

\* converter_chain.warning, for every warning of member c
RECURSIVE chain_collect(_, _)
chain_collect(self, ws) ==
    IF ws = << >> THEN self
    ELSE chain_collect([self EXCEPT !.warnings = Append(@, Head(ws))], Tail(ws))

\* one round of the loops of converter_chain.convert and close: r is what
\* member k returned; the member's warnings are added to the chain's
chain_member(self, k, r) ==
    IF r.err # "none"
    THEN Raise([self EXCEPT !.converters[k] = r.self], r.err)
    ELSE Ok(chain_collect([self EXCEPT !.converters[k] = r.self], r.self.warnings), r.out)

\* converter_chain.convert: the loop over self.converters from member k on,
\* m being the result of member k - 1
RECURSIVE converter_chain_convert(_, _)
converter_chain_convert(m, k) ==
    IF m.err # "none" \/ k > Len(m.self.converters) THEN m
    ELSE converter_chain_convert(
            chain_member(m.self, k, member_convert_string(m.self.converters[k], m.out)),
            k + 1)

\* converter_chain.close: r is overwritten by each member's close
RECURSIVE converter_chain_close(_, _)
converter_chain_close(m, k) ==
    IF m.err # "none" \/ k > Len(m.self.converters) THEN m
    ELSE converter_chain_close(
            chain_member(m.self, k, simple_close(m.self.converters[k])),
            k + 1)

convert(self, s) ==
    IF self.class = "converter_chain" THEN converter_chain_convert(Ok(self, s), 1)
    ELSE simple_convert(self, s)

close(self) ==
    IF self.class = "converter_chain" THEN converter_chain_close(Ok(self, << >>), 1)
    ELSE simple_close(self)

\* converter.convert_string (the chunks of the model are always bytes)
convert_string(self, s) ==
    IF self.closed THEN Raise(self, "ConverterError")
    ELSE convert(self, s)

(***************************************************************************)
(* The registry and the chain resolver (converters/__init__.py).           *)
(* A converter class of the registry is a record                           *)
(*     [name, source_format, output_format].                               *)
(***************************************************************************)

Formats == {"A", "B", "C"}

\* the name of the k-th registered converter
ConverterName(k) == <<"c1", "c2", "c3", "c4", "c5">>[k]

source_formats == { converters[k].source_format : k \in 1..Len(converters) }

output_formats == { converters[k].output_format : k \in 1..Len(converters) }

converter_names == { converters[k].name : k \in 1..Len(converters) }

\* "c.name in chain" taken to hold only from the second occurrence on
InChain_twice(name, chain) ==
    Cardinality({ i \in 1..Len(chain) : chain[i] = name }) >= 2

InChain(name, chain) == \E i \in 1..Len(chain) : chain[i] = name

\* find_converter_chain: the chains in the order the generator yields them.
\* find_converter_loop is its "for c in converters" loop from index k on.
RECURSIVE find_converter_chain(_, _, _)
RECURSIVE find_converter_loop(_, _, _, _)
find_converter_loop(source_format, output_format, chain, k) ==
    IF k > Len(converters) THEN << >>
    ELSE LET c == converters[k]
             here ==
                IF InChain(c.name, chain) THEN << >>
                ELSE IF c.source_format = source_format
                THEN (IF c.output_format = output_format
                      THEN << chain \o <<c.name>> >>
                      ELSE << >>)
                     \o find_converter_chain(c.output_format, output_format,
                                             chain \o <<c.name>>)
                ELSE << >>
         IN here \o find_converter_loop(source_format, output_format, chain, k + 1)

find_converter_chain(source_format, output_format, chain) ==
    IF source_format \notin source_formats THEN << >>
    ELSE IF output_format \notin output_formats THEN << >>
    ELSE find_converter_loop(source_format, output_format, chain, 1)

\* the recursion with "if c.name in chain: continue" letting a converter
\* pass that occurs once in the chain
RECURSIVE find_converter_calls_twice(_, _, _)
find_converter_calls_twice(source_format, output_format, chain) ==
    {chain} \cup
    (IF source_format \notin source_formats \/ output_format \notin output_formats
     THEN {}
     ELSE UNION { find_converter_calls_twice(converters[k].output_format, output_format,
                                             chain \o <<converters[k].name>>) :
                    k \in { k \in 1..Len(converters) :
                              /\ Cardinality({ i \in 1..Len(chain) :
                                                  chain[i] = converters[k].name }) < 2
                              /\ converters[k].source_format = source_format } })

\* find_converter_chain: the chain arguments of the calls made, that of the
\* call itself and those of the calls nested in it; a call is made for
\* every converter not in chain that reads source_format
RECURSIVE find_converter_calls(_, _, _)
find_converter_calls(source_format, output_format, chain) ==
    {chain} \cup
    (IF source_format \notin source_formats \/ output_format \notin output_formats
     THEN {}
     ELSE UNION { find_converter_calls(converters[k].output_format, output_format,
                                       chain \o <<converters[k].name>>) :
                    k \in { k \in 1..Len(converters) :
                              /\ ~InChain(converters[k].name, chain)
                              /\ converters[k].source_format = source_format } })

\* the test "len(chain) < shortest_length" with the length check left out
shorter_unchecked(chain, shortest_length) == TRUE

\* find_converter: "if len(chain) < shortest_length"
shorter(chain, shortest_length) == Len(chain) < shortest_length

\* find_converter: "for ec in explicit_converters: if ec not in chain"
valid_chain(chain, explicit_converters) ==
    \A ec \in explicit_converters : InChain(ec, chain)

\* find_converter: the loop over the yielded chains
RECURSIVE find_converter_select(_, _, _, _)
find_converter_select(chains, explicit_converters, shortest, shortest_length) ==
    IF chains = << >> THEN shortest
    ELSE LET chain == Head(chains)
         IN IF shorter(chain, shortest_length) /\ valid_chain(chain, explicit_converters)
            THEN find_converter_select(Tail(chains), explicit_converters, chain, Len(chain))
            ELSE find_converter_select(Tail(chains), explicit_converters,
                                       shortest, shortest_length)

\* find_converter: the list of names chain_converters is called with;
\* << >> stands for the return value None
find_converter(source_format, output_format, explicit_converters) ==
    find_converter_select(find_converter_chain(source_format, output_format, << >>),
                          explicit_converters, << >>, Len(converters))

(***************************************************************************)
(* brl2brf.py: convert_file and its handle_warnings.  A warning-table      *)
(* entry is the tuple (converter name, warning code, treatment)            *)
(* make_warning_table builds; a line of stderr is the tuple of the parts   *)
(* of the written text.                                                    *)
(***************************************************************************)

\* handle_warnings: "for warning_source, warning_code, behavior in
\* warning_table", with every match taking effect (no break)
RECURSIVE treatment_last_match(_, _, _)
treatment_last_match(w, treatment, warning_table) ==
    IF warning_table = << >> THEN treatment
    ELSE IF w[1] = Head(warning_table)[1]
            /\ (w[2] = Head(warning_table)[2] \/ w[2] = "*")
    THEN treatment_last_match(w, Head(warning_table)[3], Tail(warning_table))
    ELSE treatment_last_match(w, treatment, Tail(warning_table))

\* handle_warnings: "for warning_source, warning_code, behavior in
\* warning_table"; treatment starts as default_warning_treatment
RECURSIVE treatment_of(_, _, _)
treatment_of(w, treatment, warning_table) ==
    IF warning_table = << >> THEN treatment
    ELSE IF w[1] = Head(warning_table)[1]
            /\ (w[2] = Head(warning_table)[2] \/ w[2] = "*")
    THEN Head(warning_table)[3]
    ELSE treatment_of(w, treatment, Tail(warning_table))

\* sys.stderr.write(F"Warning {w[0]}.{w[1]}: {w[2]}\n")
warning_line(w) == <<"Warning", w[1], w[2], w[3]>>

\* sys.stderr.write("Above warning treated as error.\n")
error_line == <<"Above warning treated as error.">>

\* handle_warnings: the treatment "error" written out, the process going on
handle_error_no_exit(f, w) ==
    [f EXCEPT !.stderr = @ \o <<warning_line(w), error_line>>]

\* handle_warnings: "if treatment == "error"": the two lines, then sys.exit(-2)
handle_error(f, w) ==
    [f EXCEPT !.stderr = @ \o <<warning_line(w), error_line>>, !.exited = TRUE]

\* handle_warnings: "for w in converter.warnings"
RECURSIVE handle_warnings(_, _)
handle_warning(f, ws, treatment) ==
    IF treatment = "ignore" THEN handle_warnings(f, Tail(ws))
    ELSE IF treatment = "error" THEN handle_error(f, Head(ws))
    ELSE handle_warnings([f EXCEPT !.stderr = Append(@, warning_line(Head(ws)))], Tail(ws))

handle_warnings(f, ws) ==
    IF ws = << >> THEN f
    ELSE handle_warning(f, ws, treatment_of(Head(ws), f.warnings, f.warning_table))

\* convert_file(inf, outf, converter, warnings, warning_table) at its start
convert_file_init(warnings, warning_table) ==
    [warnings |-> warnings, warning_table |-> warning_table,
     presented |-> << >>, stderr |-> << >>, exited |-> FALSE]

\* no convert_file call: the caller of the sections below calls the converter
NoFile == convert_file_init("display", << >>)

\* no factory has been called twice
NoTwin == [heap |-> << >>, inst |-> << >>, alone |-> << >>, calls |-> << >>,
           k |-> 0, turns |-> 0, res |-> Ok(0, << >>), alone_res |-> Ok(0, << >>)]

(***************************************************************************)
(* The caller: calls on one instance, as convert_file makes them           *)
(* (brl2brf.py), in any order and number.                                  *)
(***************************************************************************)

KwbBytes == {SECTION_SEPARATOR, TEXT_SEPARATOR, LETTER_A, CR, BINARY_BYTE}

\* "A", and the bytes of U+2801, U+2820, U+2841 (eight-dot) and their parts
Utf8Bytes == {LETTER_A, 226, 160, 161, 129}

BrlBytes == {LETTER_A, 97, 123}

TextBytes == {LETTER_A, SPACE, LF}

\* the bytes a converter of the class is fed
ClassAlphabet(class) ==
    CASE class = "kwb_to_brf" -> KwbBytes
      [] class = "unicode_to_brf" -> Utf8Bytes
      [] class = "brl_to_brf" -> BrlBytes
      [] OTHER -> TextBytes

\* "(", and the bytes of U+2820 in UTF-8; in UTF-16 "(" is the high byte
\* of the code points U+28xx
AutoBytes == {40, 226, 160}

\* a chain is fed what its first member reads, an instance that guesses
\* the encoding or reads UTF-16 text of more than one encoding
Alphabet(self) ==
    IF self.class = "converter_chain" THEN ClassAlphabet(self.converters[1].class)
    ELSE IF self.auto_encoding \/ self.input_encoding = "UTF-16" THEN AutoBytes
    ELSE ClassAlphabet(self.class)

\* the caller's record of a call: op on the instance before, r its result
Called(op, before, s, r) ==
    /\ conv' = r.self
    /\ output' = IF r.err = "none" THEN output \o r.out ELSE output
    /\ last' = [op |-> op, err |-> r.err, out |-> r.out, closes |-> closes,
                before |-> before, s |-> s]
    /\ failed' = (failed \/ r.err # "none")
    /\ closes' = IF op = "close" /\ r.err = "none" THEN closes + 1 ELSE closes

\* convert_string(chunk) while no close call has returned
CallConvertString ==
    /\ closes = 0
    /\ \E chunk \in SeqUpTo(Alphabet(conv), MaxChunk) :
          /\ chunk = << >> \/ Len(fed) + Len(chunk) <= MaxInput
          /\ Called("convert_string", conv, chunk, convert_string(conv, chunk))
          /\ fed' = fed \o chunk
    /\ UNCHANGED <<converters, request, found, late, file, twin>>

\* convert_string(b"A") after a close call has returned
CallConvertStringLate ==
    /\ closes > 0
    /\ late < MaxLate
    /\ Called("convert_string", conv, <<LETTER_A>>, convert_string(conv, <<LETTER_A>>))
    /\ late' = late + 1
    /\ UNCHANGED <<converters, request, found, fed, file, twin>>

CallClose ==
    /\ closes < MaxCloses
    /\ Called("close", conv, << >>, close(conv))
    /\ UNCHANGED <<converters, request, found, fed, late, file, twin>>

Next == CallConvertString \/ CallConvertStringLate \/ CallClose

InitCalls(c) ==
    /\ conv = c
    /\ fed = << >>
    /\ output = << >>
    /\ last = [op |-> "none", err |-> "none", out |-> << >>, closes |-> 0,
               before |-> c, s |-> << >>]
    /\ closes = 0
    /\ failed = FALSE
    /\ late = 0
    /\ converters = << >>
    /\ request = [source_format |-> "A", output_format |-> "A", explicit_converters |-> {}]
    /\ found = << >>

InitCaller(c) == InitCalls(c) /\ file = NoFile /\ twin = NoTwin

KwbInstances == { kwb_to_brf_init(lb) : lb \in {"space", "retain", "delete"} }

UnicodeInstances ==
    { unicode_to_brf_init("UTF-8", e) : e \in {"warn", "delete", "strip", "bypass"} }

ReflowInstances ==
    { reflow_init("UTF-8", n, w, lb) :
        n \in {2, 3}, w \in {"wrap", "split", "cut"}, lb \in {"strict", "double", "remove"} }

\* the chain find_converter("unicode", "brf", ["reflow"]) builds
ChainInstances ==
    { converter_chain_init(<<r, unicode_to_brf_init("UTF-8", "warn")>>) : r \in ReflowInstances }

InitKwb == \E c \in KwbInstances : InitCaller(c)

InitUnicode == \E c \in UnicodeInstances : InitCaller(c)

InitChain == \E c \in ChainInstances : InitCaller(c)

Init ==
    \E c \in { kwb_to_brf_init("space"), unicode_to_brf_init("UTF-8", "warn"),
               brl_to_brf_init, reflow_init("UTF-8", 2, "wrap", "double") }
             \cup { converter_chain_init(<<reflow_init("UTF-8", 2, "wrap", "double"),
                                           unicode_to_brf_init("UTF-8", "warn")>>) } :
        InitCaller(c)

SpecKwb == InitKwb /\ [][Next]_vars

\* kwb_to_brf after convert_string calls that passed all but the last byte
\* of a header of HEADER_LENGTH bytes, or all of it, and no section separator
InitHeader ==
    \E n \in {0, HEADER_LENGTH - 1, HEADER_LENGTH} :
        InitCaller([kwb_to_brf_init("space") EXCEPT !.header = [i \in 1..n |-> LETTER_A]])

\* convert_string(chunk) with chunks of separators and letters
CallConvertSections ==
    /\ closes = 0
    /\ \E chunk \in SeqUpTo({SECTION_SEPARATOR, TEXT_SEPARATOR, LETTER_A}, MaxChunk) :
          /\ chunk = << >> \/ Len(fed) + Len(chunk) <= MaxInput
          /\ Called("convert_string", conv, chunk, convert_string(conv, chunk))
          /\ fed' = fed \o chunk
    /\ UNCHANGED <<converters, request, found, late, file, twin>>

SpecHeader ==
    InitHeader /\ [][CallConvertSections \/ CallConvertStringLate \/ CallClose]_vars

SpecUnicode == InitUnicode /\ [][Next]_vars

SpecChain == InitChain /\ [][Next]_vars

InitReflow == \E c \in ReflowInstances : InitCaller(c)

SpecReflow == InitReflow /\ [][Next]_vars

\* reflow with converter_options line_length = 1, the length of the default
\* split_character
InitNarrow ==
    \E w \in {"wrap", "split", "cut"} : InitCaller(reflow_init("UTF-8", 1, w, "strict"))

SpecNarrow == InitNarrow /\ [][Next]_vars

\* convert_string as the first call, with a text of letters and line
\* breaks as long as a line of the instance
CallConvertText ==
    /\ closes = 0 /\ last.op = "none"
    /\ \E chunk \in SeqUpTo({LETTER_A, LF}, MaxText) :
          /\ Called("convert_string", conv, chunk, convert_string(conv, chunk))
          /\ fed' = chunk
    /\ UNCHANGED <<converters, request, found, late, file, twin>>

\* the strings taken through BRF and back: every six-dot cell and the
\* eight-dot cells U+2840, U+28FF alone, and every string of at most
\* MaxCells of U+2800, U+283F, U+2840
BrailleStrings ==
    SeqUpTo(BRAILLE_FIRST..BRAILLE_EIGHT_DOT \cup {BRAILLE_END - 1}, 1)
        \cup SeqUpTo({BRAILLE_FIRST, BRAILLE_EIGHT_DOT - 1, BRAILLE_EIGHT_DOT}, MaxCells)

\* convert_string as the first call, with a Braille string in UTF-8
CallConvertCells ==
    /\ closes = 0 /\ last.op = "none"
    /\ \E text \in BrailleStrings :
          /\ Called("convert_string", conv, encode(text, "UTF-8"),
                    convert_string(conv, encode(text, "UTF-8")))
          /\ fed' = encode(text, "UTF-8")
    /\ UNCHANGED <<converters, request, found, late, file, twin>>

\* the BRF unicode_to_brf gave, in one convert_string call to a new
\* brf_to_unicode instance
CallBrfToUnicode ==
    /\ closes = 1 /\ last.op = "close" /\ ~failed
    /\ Called("brf_to_unicode", conv, output, convert_string(brf_to_unicode_init, output))
    /\ UNCHANGED <<converters, request, found, fed, late, file, twin>>

\* unicode_to_brf with its defaults, then brf_to_unicode
SpecRoundTrip ==
    InitCaller(unicode_to_brf_init("UTF-8", "warn"))
        /\ [][CallConvertCells \/ CallClose \/ CallBrfToUnicode]_vars

\* the options --converter-option reflow.<name>=<value> can give: the input
\* encoding, and any of line_length, word_wrap and linebreaks
OptionDicts ==
    { [k \in D \cup {"input_encoding"} |->
          CASE k = "input_encoding" -> "UTF-8"
            [] k = "line_length" -> n
            [] k = "word_wrap" -> "cut"
            [] k = "linebreaks" -> "strict"] :
        D \in SUBSET {"line_length", "word_wrap", "linebreaks"}, n \in {2, 3} }

\* the factory get_converter returned is called, no instance existing yet
CallMakeConverterInstance ==
    /\ conv.class = "None"
    /\ \E converter_options \in OptionDicts :
          Called("make_converter_instance", conv, converter_options,
                 make_converter_instance(converter_options))
    /\ UNCHANGED <<converters, request, found, fed, late, file, twin>>

\* construction of a reflow instance, then the calls on it
SpecMake ==
    InitCaller(NewConverter("None", "None"))
        /\ [][CallMakeConverterInstance \/ (conv.class # "None" /\ Next)]_vars

\* reflow with lines of six characters, otherwise as by default
SpecText ==
    InitCaller(reflow_init("UTF-8", 6, "wrap", "double")) /\ [][CallConvertText \/ Next]_vars

\* unicode_to_brf with the encoding to be guessed, and with it configured
AutoInstances ==
    { unicode_to_brf_init("auto", "warn"), unicode_to_brf_init("UTF-16", "warn") }

InitAuto == \E c \in AutoInstances : InitCaller(c)

SpecAuto == InitAuto /\ [][Next]_vars

\* unicode_to_brf with input_encoding UTF-16 after convert_string(b"(((") has
\* returned the first character and retained the third byte
InitRetained ==
    InitCaller([unicode_to_brf_init("UTF-16", "warn") EXCEPT !.input_buffer = <<40>>])

SpecRetained == InitRetained /\ [][Next]_vars

Spec == Init /\ [][Next]_vars

(***************************************************************************)
(* The caller of find_converter, over every registry of at most            *)
(* MaxConverters converters between the formats.                           *)
(***************************************************************************)

Registries ==
    UNION { { [k \in 1..n |-> [name |-> ConverterName(k),
                               source_format |-> e[k][1],
                               output_format |-> e[k][2]]] :
              e \in [1..n -> Formats \X Formats] } : n \in 1..MaxConverters }

\* the source formats asked for; the registries range over every renaming
RequestSources == {"A"}

InitFind ==
    /\ converters \in Registries
    /\ request = [source_format |-> "A", output_format |-> "A", explicit_converters |-> {}]
    /\ found = << >>
    /\ conv = brl_to_brf_init
    /\ fed = << >>
    /\ output = << >>
    /\ last = [op |-> "none", err |-> "none", out |-> << >>, closes |-> 0,
               before |-> brl_to_brf_init, s |-> << >>]
    /\ file = NoFile
    /\ twin = NoTwin
    /\ closes = 0
    /\ failed = FALSE
    /\ late = 0

CallFindConverter ==
    /\ last.op = "none"
    /\ \E source_format \in RequestSources, output_format \in Formats,
          explicit_converters \in SUBSET converter_names :
          /\ request' = [source_format |-> source_format,
                         output_format |-> output_format,
                         explicit_converters |-> explicit_converters]
          /\ found' = find_converter(source_format, output_format, explicit_converters)
    /\ last' = [last EXCEPT !.op = "find_converter"]
    /\ UNCHANGED <<converters, conv, fed, output, closes, failed, late, file, twin>>

NextFind == CallFindConverter

SpecFind == InitFind /\ [][NextFind]_vars

\* find_converter(source_format, output_format): explicit_converters is left
\* at its default, the empty list
CallFindShortest ==
    /\ last.op = "none"
    /\ \E source_format \in RequestSources, output_format \in Formats :
          /\ request' = [source_format |-> source_format,
                         output_format |-> output_format,
                         explicit_converters |-> {}]
          /\ found' = find_converter(source_format, output_format, {})
    /\ last' = [last EXCEPT !.op = "find_converter"]
    /\ UNCHANGED <<converters, conv, fed, output, closes, failed, late, file, twin>>

SpecSearch == InitFind /\ [][CallFindShortest]_vars

(***************************************************************************)
(* convert_file (brl2brf.py lines 45-51): one convert_string call for each *)
(* line of the input, then one close call; after each of them              *)
(* handle_warnings and converter.clear_warnings().  An exception of the    *)
(* converter leaves convert_file; sys.exit ends the process.               *)
(***************************************************************************)

\* "handle_warnings(converter.warnings, warnings, warning_table)" after a
\* call that returned r
Handled(r) ==
    IF r.err # "none" THEN file
    ELSE handle_warnings([file EXCEPT !.presented = r.self.warnings], r.self.warnings)

\* "converter.clear_warnings()", reached unless the call raised or
\* handle_warnings left the process
Cleared(r, f) ==
    IF r.err # "none" \/ f.exited THEN r.self ELSE clear_warnings(r.self)

\* "outf.write(converter.<op>(s))" and the two statements after it
FileCalled(op, before, s, r) ==
    /\ output' = IF r.err = "none" THEN output \o r.out ELSE output
    /\ last' = [op |-> op, err |-> r.err, out |-> r.out, closes |-> closes,
                before |-> before, s |-> s]
    /\ failed' = (failed \/ r.err # "none")
    /\ closes' = IF op = "close" /\ r.err = "none" THEN closes + 1 ELSE closes
    /\ file' = Handled(r)
    /\ conv' = Cleared(r, Handled(r))

\* the bytes of the KWB files convert_file is given
FileBytes == {SECTION_SEPARATOR, TEXT_SEPARATOR, LETTER_A}

\* the body of "for line in inf": a line of a file is not empty
FileConvertString ==
    /\ closes = 0 /\ ~failed /\ ~file.exited
    /\ \E line \in SeqUpTo(FileBytes, MaxChunk) \ {<< >>} :
          /\ Len(fed) + Len(line) <= MaxInput
          /\ FileCalled("convert_string", conv, line, convert_string(conv, line))
          /\ fed' = fed \o line
    /\ UNCHANGED <<converters, request, found, late, twin>>

\* the statements after the loop
FileClose ==
    /\ closes = 0 /\ ~failed /\ ~file.exited
    /\ FileCalled("close", conv, << >>, close(conv))
    /\ UNCHANGED <<converters, request, found, fed, late, twin>>

NextFile == FileConvertString \/ FileClose

\* the chain find_converter("kwb", "unicode") builds, and its first member alone
FileInstances ==
    { converter_chain_init(<<kwb_to_brf_init("space"), brf_to_unicode_init>>),
      kwb_to_brf_init("space") }

\* the tables of --warning kwb_to_brf.<code>=<treatment>, of no and of two options
FileTables ==
    { << >>,
      <<<<"kwb_to_brf", "kwb_format_unexpected", "ignore">>>>,
      <<<<"kwb_to_brf", "kwb_format_unexpected", "error">>>>,
      <<<<"kwb_to_brf", "*", "error">>>>,
      <<<<"unicode_to_brf", "kwb_format_unexpected", "error">>,
        <<"kwb_to_brf", "kwb_format_unexpected", "display">>>> }

InitFile ==
    \E c \in FileInstances, warnings \in {"display", "error"},
       warning_table \in FileTables :
        InitCalls(c) /\ file = convert_file_init(warnings, warning_table) /\ twin = NoTwin

SpecFile == InitFile /\ [][NextFile]_vars

(***************************************************************************)
(* handle_warnings alone, for every warning table of at most MaxTable      *)
(* entries and every list of at most MaxWarnings warnings.                 *)
(***************************************************************************)

\* what --warning <converter>.<code>=<treatment> can name
TableEntries ==
    { <<"kwb_to_brf", "kwb_format_unexpected">>, <<"kwb_to_brf", "*">>,
      <<"unicode_to_bra", "character_out_of_range">>, <<"unicode_to_bra", "*">> }

WarningTables ==
    { [i \in 1..Len(e) |-> <<e[i][1][1], e[i][1][2], e[i][2]>>] :
        e \in SeqUpTo(TableEntries \X {"ignore", "display", "error"}, MaxTable) }

\* warnings as kwb_to_brf and unicode_to_bra raise them
RaisedWarnings ==
    { <<"kwb_to_brf", "kwb_format_unexpected", <<"KWB header has unexpected length", 0>>>>,
      <<"unicode_to_bra", "character_out_of_range", "cannot be directly converted">>,
      <<"unicode_to_bra", "character_unsupported", "currently unknown">> }

InitWarnings ==
    /\ InitCalls(brl_to_brf_init)
    /\ twin = NoTwin
    /\ \E warnings \in {"ignore", "display", "error"}, warning_table \in WarningTables,
          ws \in SeqUpTo(RaisedWarnings, MaxWarnings) :
          file = [convert_file_init(warnings, warning_table) EXCEPT !.presented = ws]

\* handle_warnings(converter.warnings, warnings, warning_table)
CallHandleWarnings ==
    /\ last.op = "none"
    /\ file' = handle_warnings(file, file.presented)
    /\ last' = [last EXCEPT !.op = "handle_warnings"]
    /\ UNCHANGED <<converters, request, found, conv, fed, output, closes, failed, late, twin>>

SpecWarnings == InitWarnings /\ [][CallHandleWarnings]_vars

(***************************************************************************)
(* Two instances of one factory (converters/__init__.py).  An instance is  *)
(* an object at an address of twin.heap; a converter_chain holds the       *)
(* addresses of its members in self.converters, the other classes hold     *)
(* only values of their own.  twin.alone[k] is instance k as the calls     *)
(* made on it leave it when no other instance exists.                      *)
(***************************************************************************)

\* the instance at address a, its members read through self.converters
deref(heap, a) ==
    IF heap[a].class = "converter_chain"
    THEN [heap[a] EXCEPT !.converters = [i \in DOMAIN @ |-> heap[@[i]]]]
    ELSE heap[a]

\* the heap after a method has run on the instance at address a and left
\* it, and its members, as self
assign(heap, a, self) ==
    IF heap[a].class = "converter_chain"
    THEN LET cs == heap[a].converters
         IN [b \in DOMAIN heap |->
                IF b = a THEN [self EXCEPT !.converters = cs]
                ELSE IF \E i \in DOMAIN cs : cs[i] = b
                     THEN self.converters[CHOOSE i \in DOMAIN cs : cs[i] = b]
                     ELSE heap[b]]
    ELSE [heap EXCEPT ![a] = self]

\* make_chain_instance with the members the first call made kept for every
\* later call
make_chain_instance_once(heap, chain) ==
    IF heap = << >>
    THEN [heap |-> heap \o chain
                     \o <<converter_chain_init([i \in DOMAIN chain |-> Len(heap) + i])>>,
          addr |-> Len(heap) + Len(chain) + 1]
    ELSE [heap |-> heap \o <<converter_chain_init([i \in DOMAIN chain |-> i])>>,
          addr |-> Len(heap) + 1]

\* make_chain_instance: "cs.append(c())" for every factory c of chain, an
\* element of chain being the instance its factory constructs, then
\* "return converter_chain(cs)"
make_chain_instance(heap, chain) ==
    [heap |-> heap \o chain
                \o <<converter_chain_init([i \in DOMAIN chain |-> Len(heap) + i])>>,
     addr |-> Len(heap) + Len(chain) + 1]

\* a call of what find_converter returned for the chain of names: the
\* function get_converter made when the chain has one name, else
\* make_chain_instance
call_factory(heap, chain) ==
    IF Len(chain) = 1
    THEN [heap |-> Append(heap, chain[1]), addr |-> Len(heap) + 1]
    ELSE make_chain_instance(heap, chain)

\* the factories: kwb_to_brf alone, and kwb_to_brf followed by brf_to_unicode
TwinFactories ==
    { <<kwb_to_brf_init(lb)>> : lb \in {"space", "retain"} }
        \cup { <<kwb_to_brf_init("space"), brf_to_unicode_init>> }

\* an empty header, a letter, and a content section with its end
TwinChunks ==
    { <<SECTION_SEPARATOR>>, <<LETTER_A>>, <<TEXT_SEPARATOR, LETTER_A, SECTION_SEPARATOR>> }

\* "a = factory(); b = factory()"
InitTwin ==
    /\ InitCalls(NewConverter("None", "None"))
    /\ file = NoFile
    /\ \E chain \in TwinFactories :
          LET a == call_factory(<< >>, chain)
              b == call_factory(a.heap, chain)
          IN twin = [NoTwin EXCEPT !.heap = b.heap,
                                   !.inst = <<a.addr, b.addr>>,
                                   !.alone = <<deref(a.heap, a.addr), deref(a.heap, a.addr)>>,
                                   !.calls = <<0, 0>>]

\* a method called on instance k: r is what it does to the instance among
\* the objects of the heap, ra what it does to the instance alone
TwinCalled(k, r, ra) ==
    /\ twin.calls[k] < MaxCalls
    /\ twin' = [twin EXCEPT !.heap = assign(@, twin.inst[k], r.self),
                            !.alone[k] = ra.self,
                            !.calls[k] = @ + 1,
                            !.k = k,
                            !.turns = IF twin.k \in {0, k} THEN @ ELSE @ + 1,
                            !.res = [r EXCEPT !.self = 0],
                            !.alone_res = [ra EXCEPT !.self = 0]]
    /\ UNCHANGED <<converters, request, found, conv, fed, output, last, closes, failed,
                   late, file>>

TwinConvertString ==
    \E k \in 1..2, chunk \in TwinChunks :
        TwinCalled(k, convert_string(deref(twin.heap, twin.inst[k]), chunk),
                   convert_string(twin.alone[k], chunk))

TwinClearWarnings ==
    \E k \in 1..2 :
        TwinCalled(k, Ok(clear_warnings(deref(twin.heap, twin.inst[k])), << >>),
                   Ok(clear_warnings(twin.alone[k]), << >>))

TwinClose ==
    \E k \in 1..2 :
        TwinCalled(k, close(deref(twin.heap, twin.inst[k])), close(twin.alone[k]))

SpecTwin == InitTwin /\ [][TwinConvertString \/ TwinClearWarnings \/ TwinClose]_vars

(***************************************************************************)
(* Reference definitions the properties are stated with.                   *)
(***************************************************************************)

\* sequences over 1..n without a repeated element: the ways to line up
\* distinct converters of the registry
DistinctIndexes(n) ==
    { p \in SeqUpTo(1..n, n) : p # << >> /\ \A i, j \in 1..Len(p) : p[i] = p[j] => i = j }

\* p leads from source_format to output_format, each converter reading what
\* the one before it writes
IsPath(p, source_format, output_format) ==
    /\ converters[p[1]].source_format = source_format
    /\ converters[p[Len(p)]].output_format = output_format
    /\ \A i \in 1..(Len(p) - 1) :
          converters[p[i]].output_format = converters[p[i + 1]].source_format

PathNames(p) == [i \in 1..Len(p) |-> converters[p[i]].name]

\* the paths of the request that contain every required converter
QualifyingPaths ==
    { PathNames(p) : p \in { q \in DistinctIndexes(Len(converters)) :
        /\ IsPath(q, request.source_format, request.output_format)
        /\ \A ec \in request.explicit_converters :
              \E i \in 1..Len(q) : converters[q[i]].name = ec } }

Fewest(chain) == \A p \in QualifyingPaths : Len(chain) <= Len(p)

\* an instance as its constructor left it
Unused(self) ==
    [self EXCEPT !.input_buffer = << >>, !.warnings = << >>, !.closed = FALSE,
                 !.header = << >>, !.stage = 0, !.text_buffer = << >>]

AsConstructed(self) ==
    [Unused(self) EXCEPT
        !.converters = [k \in 1..Len(self.converters) |-> Unused(self.converters[k])]]

\* the total output of a call followed by close: r is what the call gave,
\* c what close gave on the instance the call left
TotalOutput(r, c) ==
    [out |-> r.out \o c.out,
     err |-> IF r.err # "none" THEN r.err ELSE c.err]

CloseAfter(r) == TotalOutput(r, close(r.self))

\* the whole of data in one convert_string call, then close
OneCall(self, data) == CloseAfter(convert_string(self, data))

\* the members from the k-th on run one after another, each on the whole
\* output of the one before
RECURSIVE RunMembers(_, _, _)
RunMembers(cs, k, data) ==
    IF k > Len(cs) THEN data
    ELSE RunMembers(cs, k + 1, OneCall(cs[k], data).out)

\* the stream passed in so far has been closed once, and nothing else was called
ClosedOnce == closes = 1 /\ late = 0 /\ last.op = "close"

(***************************************************************************)
(* Properties.                                                             *)
(***************************************************************************)

\* C1: once the chain has been closed, its total output (every convert
\* return value, then the close return value) is what the members give when
\* run one after another, each on the whole output of its predecessor.
C1_ChainIsComposition ==
    (ClosedOnce /\ ~failed /\ conv.class = "converter_chain")
        => output = RunMembers(AsConstructed(conv).converters, 1, fed)

\* C2: kwb_to_brf gives the same total output for every way of cutting the
\* input into chunks as for the input passed in one call.
C2_KwbChunkInvariant ==
    (ClosedOnce /\ conv.class = "kwb_to_brf")
        => (~failed /\ output = OneCall(AsConstructed(conv), fed).out)

\* C3: for validly encoded input, unicode_to_brf with a fixed input encoding
\* gives the same total output for every chunking as for one call, and no
\* call fails.
C3_UnicodeChunkInvariant ==
    (ClosedOnce /\ conv.class = "unicode_to_brf" /\ decode(fed, conv.input_encoding).ok)
        => (~failed /\ output = OneCall(AsConstructed(conv), fed).out)

\* C4: find_converter returns a chain exactly when some path of distinct
\* converters leads from the source to the target format and contains every
\* required converter; it returns None only when there is no such path.
C4_FoundIffPathExists ==
    last.op = "find_converter" => ((found # << >>) <=> (QualifyingPaths # {}))

\* C5: the chain find_converter returns is a qualifying path, and no
\* qualifying path has strictly fewer converters.
C5_FoundIsFewest ==
    (last.op = "find_converter" /\ found # << >>)
        => (found \in QualifyingPaths /\ Fewest(found))

\* C5, its case: a chain was returned although a longer qualifying path, one
\* the search yields as well, exists
C5_Witness ==
    /\ last.op = "find_converter"
    /\ found # << >>
    /\ \E p \in QualifyingPaths : Len(p) > Len(found)

\* C6: with required converters, the chain returned contains each of them and
\* is the shortest path that does, the shortest path of all being passed over
\* when it lacks one; None is returned when no path contains them all.
C6_RequiredConverters ==
    (last.op = "find_converter" /\ request.explicit_converters # {})
        => IF QualifyingPaths = {} THEN found = << >>
           ELSE found \in QualifyingPaths /\ Fewest(found)

\* C7: close in the stage reading_content with a non-empty unterminated run
\* in the buffer returns that run as convert_section classifies it.
C7_KwbCloseFlushesRun ==
    (last.op = "close" /\ last.closes = 0 /\ last.before.class = "kwb_to_brf"
        /\ last.before.stage = 1 /\ last.before.input_buffer # << >>)
        => (last.err = "none"
            /\ last.out = convert_section(last.before, last.before.input_buffer))

\* C8: once close has returned, input_buffer is empty, of the instance and of
\* the members of a chain.
C8_BufferEmptyAfterClose ==
    (last.op = "close" /\ last.err = "none")
        => (conv.input_buffer = << >>
            /\ \A k \in 1..Len(conv.converters) :
                  conv.converters[k].input_buffer = << >>)

\* C9: once close has returned, a later convert_string call raises
\* ConverterError and returns nothing.
C9_ConvertAfterCloseRaises ==
    (last.op = "convert_string" /\ last.closes >= 1)
        => (last.err = "ConverterError" /\ last.out = << >>)

\* C10: a close call after close has returned raises ConverterError and
\* leaves the instance as it was.
C10_SecondCloseRaises ==
    (last.op = "close" /\ last.closes >= 1)
        => (last.err = "ConverterError" /\ conv = last.before)

\* the warnings member k of the chain raised during the last call: those
\* its list has gained
RaisedBy(k) ==
    SubSeq(conv.converters[k].warnings,
           Len(last.before.converters[k].warnings) + 1,
           Len(conv.converters[k].warnings))

\* the warnings the members from k on raised during the last call
RECURSIVE RaisedFrom(_)
RaisedFrom(k) ==
    IF k > Len(conv.converters) THEN << >> ELSE RaisedBy(k) \o RaisedFrom(k + 1)

\* C11: driven as convert_file drives it, a chain presents after each call
\* exactly the warnings its members raised during that call, none of an
\* earlier call.
C11_PresentedOnce ==
    (conv.class = "converter_chain" /\ last.op # "none" /\ last.err = "none")
        => file.presented = RaisedFrom(1)

\* the elements of a list
Elements(list) == { list[i] : i \in 1..Len(list) }

\* C12: every warning a chain presents is a warning of one of its members,
\* source, code and description as the member recorded them, the source
\* being that member's name and never the chain's.
C12_ChainKeepsSource ==
    (conv.class = "converter_chain")
        => \A w \in Elements(file.presented) \cup Elements(conv.warnings) :
              /\ w[1] # conv.name
              /\ \E k \in 1..Len(conv.converters) :
                    /\ w \in Elements(conv.converters[k].warnings)
                    /\ w[1] = conv.converters[k].name

C12_Witness ==
    /\ conv.class = "converter_chain"
    /\ last.op = "convert_string" /\ last.err = "none"
    /\ file.presented # << >>

\* the treatment of the first entry of the table, in table order, with the
\* source and the code of warning w; the default if there is none
FirstMatch(w, warnings, warning_table) ==
    LET matching == { i \in 1..Len(warning_table) :
                        warning_table[i][1] = w[1] /\ warning_table[i][2] = w[2] }
    IN IF matching = {} THEN warnings
       ELSE warning_table[CHOOSE i \in matching : \A j \in matching : i <= j][3]

\* what handle_warnings is to write for the warnings ws when each is
\* treated as treatment(w) says, and whether it is to leave the process
RECURSIVE Expected(_, _, _)
Expected(ws, treatment(_), f) ==
    IF ws = << >> THEN f
    ELSE IF treatment(Head(ws)) = "ignore" THEN Expected(Tail(ws), treatment, f)
    ELSE IF treatment(Head(ws)) = "error"
    THEN [f EXCEPT !.stderr = @ \o <<warning_line(Head(ws)), error_line>>, !.exited = TRUE]
    ELSE Expected(Tail(ws), treatment,
                  [f EXCEPT !.stderr = Append(@, warning_line(Head(ws)))])

\* C13: each warning is treated as the first table entry with its source
\* and code says, and as the default treatment says if there is no such
\* entry.
C13_FirstMatchOrDefault ==
    (last.op = "handle_warnings")
        => LET treatment(w) == FirstMatch(w, file.warnings, file.warning_table)
           IN file = Expected(file.presented, treatment,
                              [file EXCEPT !.stderr = << >>, !.exited = FALSE])

\* a second entry for the warning decides nothing: the first one does
C13_Witness ==
    /\ last.op = "handle_warnings"
    /\ Len(file.warning_table) = 2
    /\ \E w \in Elements(file.presented) :
          /\ \A i \in 1..2 : file.warning_table[i][1] = w[1] /\ file.warning_table[i][2] = w[2]
          /\ file.warning_table[1][3] = "ignore"
          /\ file.warning_table[2][3] = "display"
    /\ file.stderr = << >>

\* the treatment of the first entry of the table naming the converter of
\* warning w with the code "*"; "none" if there is none
Wildcard(w, warning_table) ==
    LET naming == { i \in 1..Len(warning_table) :
                      warning_table[i][1] = w[1] /\ warning_table[i][2] = "*" }
    IN IF naming = {} THEN "none"
       ELSE warning_table[CHOOSE i \in naming : \A j \in naming : i <= j][3]

\* C14: when the only entries of the table naming a converter have the
\* code "*", every warning of that converter is treated as the first of
\* them says, whatever its code.
C14_WildcardMatchesAll ==
    (/\ last.op = "handle_warnings"
     /\ \A i \in 1..Len(file.warning_table) : file.warning_table[i][2] = "*"
     /\ \A w \in Elements(file.presented) : Wildcard(w, file.warning_table) # "none")
        => LET treatment(w) == Wildcard(w, file.warning_table)
           IN file = Expected(file.presented, treatment,
                              [file EXCEPT !.stderr = << >>, !.exited = FALSE])

\* a warning the last call presented has the resolved treatment "error"
ErrorPresented ==
    \E w \in Elements(file.presented) :
        treatment_of(w, file.warnings, file.warning_table) = "error"

\* C15: once a call of convert_file has presented a warning whose resolved
\* treatment is "error", convert_file takes no further step: no
\* convert_string call for a later line, no close call, no further output.
C15_ErrorStopsConversion == [][~ErrorPresented]_vars

\* the line that raised the warning is not the last the input could hold
C15_Witness ==
    /\ last.op = "convert_string" /\ last.err = "none"
    /\ ErrorPresented
    /\ file.exited
    /\ Len(fed) < MaxInput

\* the part of data that decodes cleanly under the encoding: all of it, or
\* what precedes the place of the decode error
CleanPrefix(data, encoding) ==
    IF decode(data, encoding).ok THEN decode(data, encoding).text
    ELSE decode(SubSeq(data, 1, decode(data, encoding).start), encoding).text

Score(data, encoding) == count_unicode_braille_chars(CleanPrefix(data, encoding))

\* the first of UTF-8, UTF-16, UTF-32 with the highest score
BestScoring(data) ==
    ENCODINGS[CHOOSE k \in 1..3 :
        /\ \A j \in 1..3 : Score(data, ENCODINGS[j]) <= Score(data, ENCODINGS[k])
        /\ \A j \in 1..(k - 1) : Score(data, ENCODINGS[j]) < Score(data, ENCODINGS[k])]

\* the call made guess_encoding_of run on its chunk, and it returned
Guessed ==
    /\ last.op = "convert_string"
    /\ last.before.auto_encoding /\ last.before.input_encoding = "None"
    /\ last.s # << >>
    /\ guess_encoding_of(last.s).err = "none"

\* C16: guess_encoding_of returns the first of UTF-8, UTF-16, UTF-32 among
\* those whose cleanly decodable prefix of the chunk holds the most code
\* points of U+2800..U+28FF.
C16_GuessIsBestScoring ==
    Guessed => guess_encoding_of(last.s).encoding = BestScoring(last.s)

\* C17: a call on an instance whose input_encoding has a value leaves that
\* value as it is, and a call with an empty chunk on an instance without
\* one leaves it without one.
C17_EncodingFrozen ==
    /\ (last.before.input_encoding # "None")
          => conv.input_encoding = last.before.input_encoding
    /\ (last.op = "convert_string" /\ last.s = << >>)
          => conv.input_encoding = last.before.input_encoding

\* a guessed encoding outlives a chunk another encoding would score higher on
C17_Witness ==
    /\ last.op = "convert_string" /\ last.s # << >>
    /\ last.before.auto_encoding
    /\ last.before.input_encoding = "UTF-8"
    /\ guess_encoding_of(last.s).err = "none"
    /\ guess_encoding_of(last.s).encoding = "UTF-16"
    /\ conv.input_encoding = "UTF-8"

\* the bytes the last call had unicode_decode decode: the retained bytes
\* and the chunk; for close the retained bytes
AllData ==
    IF last.op = "close" THEN last.before.input_buffer
    ELSE last.before.input_buffer \o last.s

\* the bytes of the last call are malformed under the fixed encoding: their
\* decoding fails and not for want of further bytes
Malformed ==
    /\ last.op \in {"convert_string", "close"}
    /\ conv.class = "unicode_to_brf"
    /\ last.before.input_encoding # "None"
    /\ ~decode(AllData, last.before.input_encoding).ok
    /\ ~IsTruncation(decode(AllData, last.before.input_encoding).reason)

\* C18: a call whose bytes are malformed under the fixed encoding ends in
\* a ConverterError.
C18_MalformedIsFatal == Malformed => last.err = "ConverterError"

\* the output without the bytes of line breaks
WithoutBreaks(bytes) == SelectSeq(bytes, LAMBDA b : b \notin {CR, LF})

\* C19: under word_wrap = wrap and linebreaks = double, for input without
\* explicit line breaks, the total output with the inserted line breaks
\* removed is the input, every character of it, and no call fails.
C19_ReflowPreservesContent ==
    (/\ ClosedOnce
     /\ conv.class = "reflow" /\ conv.word_wrap = "wrap" /\ conv.linebreaks = "double"
     /\ ~Contains(fed, LF))
        => (~failed /\ WithoutBreaks(output) = fed)

\* C20: reflow gives the same total output for every chunking of the input
\* as for one call, and no call fails.
C20_ReflowChunkInvariant ==
    (ClosedOnce /\ conv.class = "reflow")
        => (~failed /\ output = OneCall(AsConstructed(conv), fed).out)

\* the last call was convert_string(b"") on an instance not yet closed
EmptyChunk == last.op = "convert_string" /\ last.s = << >> /\ last.closes = 0

\* C21: convert_string with an empty chunk returns empty bytes, raises
\* nothing, adds no warning and leaves the instance as it was.
C21_EmptyChunkNoOp ==
    EmptyChunk => (last.err = "none" /\ last.out = << >> /\ conv = last.before)

\* C22: making a reflow instance from options without line_length is an
\* error: the call raises and no instance exists after it.
C22_RequiredOptionMissing ==
    (last.op = "make_converter_instance" /\ "line_length" \notin DOMAIN last.s)
        => (last.err # "none" /\ conv.class = "None")

\* the characters of the string fed, decoded from its UTF-8
FedText == decode(fed, "UTF-8").text

SixDot(cn) == cn >= BRAILLE_FIRST /\ cn < BRAILLE_EIGHT_DOT

\* C23: a string of six-dot cells converted by unicode_to_brf and back by
\* brf_to_unicode is the string again, no call failing; a string with an
\* eight-dot cell makes unicode_to_brf, eight_dot_characters being warn,
\* record a warning, no call failing.
C23_BrfRoundTrip ==
    /\ (last.op = "brf_to_unicode"
          \/ (last.op \in {"convert_string", "close"} /\ last.closes = 0))
          => last.err = "none"
    /\ (last.op = "brf_to_unicode" /\ \A i \in 1..Len(FedText) : SixDot(FedText[i]))
          => last.out = fed
    /\ (last.op = "convert_string" /\ \E i \in 1..Len(FedText) : ~SixDot(FedText[i]))
          => \E w \in Elements(conv.warnings) : w[2] = "8_to_6_dot_conversion"

\* the string U+283F U+2800 U+283F has come back, BRF "= =" in between
C23_Witness ==
    /\ last.op = "brf_to_unicode"
    /\ FedText = <<BRAILLE_EIGHT_DOT - 1, BRAILLE_FIRST, BRAILLE_EIGHT_DOT - 1>>
    /\ last.s = <<61, SPACE, 61>>
    /\ last.out = fed


\* C24: two instances of one factory share no mutable state: after any
\* interleaving of convert_string, clear_warnings and close calls on them,
\* each call has returned or raised what it does on an instance alone, and
\* each instance (buffers, stage, closed flag, warnings, members) is as its
\* own calls alone leave it.
C24_InstancesIndependent ==
    twin # NoTwin
        => /\ twin.res = twin.alone_res
           /\ \A k \in 1..2 : deref(twin.heap, twin.inst[k]) = twin.alone[k]

\* chain instances called in turns, both with warnings of their members
C24_Witness ==
    /\ twin # NoTwin
    /\ twin.turns >= 2
    /\ \A k \in 1..2 :
          /\ twin.alone[k].class = "converter_chain"
          /\ twin.alone[k].warnings # << >>
          /\ twin.alone[k].converters[1].stage > 0
    /\ twin.alone[1] # twin.alone[2]

\* the chains find_converter_chain yields for the request, in its order
Yielded == find_converter_chain(request.source_format, request.output_format, << >>)

\* the i-th yielded chain holds every required converter, and no yielded
\* chain that does is shorter
MinimalAt(i) ==
    /\ valid_chain(Yielded[i], request.explicit_converters)
    /\ \A j \in 1..Len(Yielded) :
          valid_chain(Yielded[j], request.explicit_converters)
              => Len(Yielded[i]) <= Len(Yielded[j])

\* C25: when several qualifying paths tie at the minimal length,
\* find_converter returns the one of them find_converter_chain yields first.
C25_FirstYieldedWins ==
    (last.op = "find_converter"
        /\ Cardinality({ i \in 1..Len(Yielded) : MinimalAt(i) }) >= 2)
        => \E i \in 1..Len(Yielded) :
              /\ MinimalAt(i)
              /\ \A j \in 1..(i - 1) : ~MinimalAt(j)
              /\ found = Yielded[i]

\* C26: over any sequence of convert and close calls the stage of a
\* kwb_to_brf instance never decreases and is always 0, 1 or 2.
C26_StageMovesForward ==
    [][conv.class = "kwb_to_brf"
          => (conv'.stage >= conv.stage /\ conv'.stage \in {0, 1, 2})]_vars

\* a call took the instance from reading_content to ended, after an earlier
\* call had taken it out of reading_header
C26_Witness ==
    /\ conv.class = "kwb_to_brf"
    /\ last.op = "convert_string"
    /\ last.before.stage = 1
    /\ last.before.header # << >>
    /\ conv.stage = 2

\* the runs of content data between text separators, each as convert_section
\* classifies and converts it
RECURSIVE Runs(_, _)
Runs(self, data) ==
    IF Contains(data, TEXT_SEPARATOR)
    THEN convert_section(self, Head0(data, Index(data, TEXT_SEPARATOR) - 1))
            \o Runs(self, Tail0(data, Index(data, TEXT_SEPARATOR)))
    ELSE convert_section(self, data)

\* the warning of the ended stage
TrailingData ==
    <<"kwb_to_brf", "kwb_format_unexpected",
      <<"Unexpected data found after content section", 0>>>>

\* C27: in the stage reading_content, the first section separator of a chunk
\* ends the content: the runs before it are classified and emitted, the stage
\* becomes ended, and the bytes after it are trailing data, also when a text
\* separator occurs among them.
C27_FirstSeparatorEndsContent ==
    (last.op = "convert_string" /\ last.before.class = "kwb_to_brf"
        /\ ~last.before.closed /\ last.before.stage = 1
        /\ Contains(last.s, SECTION_SEPARATOR))
        => LET i == Index(last.s, SECTION_SEPARATOR)
           IN /\ last.err = "none"
              /\ conv.stage = 2
              /\ last.out = Runs(last.before, last.before.input_buffer \o Head0(last.s, i - 1))
              /\ conv.warnings = last.before.warnings
                    \o (IF Tail0(last.s, i) # << >> THEN <<TrailingData>> ELSE << >>)

\* a printable run byte by byte: CR as the linebreaks option has it (a
\* space, the line break CR LF, or nothing), LF as CR LF, any other byte as
\* it is
RECURSIVE RunOutput(_, _)
RunOutput(self, run) ==
    IF run = << >> THEN << >>
    ELSE (CASE Head(run) = CR -> self.autolinebreak_str
            [] Head(run) = LF -> <<CR, LF>>
            [] OTHER -> <<Head(run)>>) \o RunOutput(self, Tail(run))

\* the last call passed one whole content run and the text separator after it
OneRun ==
    /\ last.op = "convert_string" /\ last.before.class = "kwb_to_brf"
    /\ ~last.before.closed /\ last.before.stage = 1
    /\ last.before.input_buffer = << >>
    /\ last.s # << >>
    /\ last.s[Len(last.s)] = TEXT_SEPARATOR
    /\ ~Contains(Head0(last.s, Len(last.s) - 1), TEXT_SEPARATOR)
    /\ ~Contains(last.s, SECTION_SEPARATOR)

\* C28: a content run with a byte outside the printable set gives no output
\* and no warning; a printable run is emitted with every CR replaced as the
\* linebreaks option says and every LF as CR LF.
C28_RunClassification ==
    OneRun
        => LET run == Head0(last.s, Len(last.s) - 1)
           IN /\ last.err = "none"
              /\ conv.warnings = last.before.warnings
              /\ last.out = IF \E i \in 1..Len(run) : run[i] \notin READABLE_CHARACTERS
                            THEN << >>
                            ELSE RunOutput(last.before, run)

\* the header-length warnings among the warnings of the instance
HeaderWarnings ==
    { i \in 1..Len(conv.warnings) : conv.warnings[i][3][1] = "KWB header has unexpected length" }

\* C29: kwb_to_brf holds exactly one header-length warning once the first
\* section separator has been seen if the header accumulated over all chunks
\* is not HEADER_LENGTH bytes long, and none otherwise or before; the call
\* that sees the separator raises no error and goes on in reading_content
\* with the bytes after the separator.
C29_HeaderLengthWarning ==
    conv.class = "kwb_to_brf"
        => /\ Cardinality(HeaderWarnings)
                = (IF conv.stage > 0 /\ Len(conv.header) # HEADER_LENGTH THEN 1 ELSE 0)
           /\ (last.op = "convert_string" /\ ~last.before.closed /\ last.before.stage = 0
                  /\ Contains(last.s, SECTION_SEPARATOR))
                 => LET i == Index(last.s, SECTION_SEPARATOR)
                        h == last.before.header \o Head0(last.s, i - 1)
                        entered ==
                            [last.before EXCEPT
                                !.header = h,
                                !.stage = 1,
                                !.warnings =
                                    IF Len(h) # HEADER_LENGTH
                                    THEN Append(@, <<"kwb_to_brf", "kwb_format_unexpected",
                                                     <<"KWB header has unexpected length",
                                                       Len(h)>>>>)
                                    ELSE @]
                    IN /\ last.err = "none"
                       /\ conv.header = h
                       /\ Ok(conv, last.out) = kwb_to_brf_convert(entered, Tail0(last.s, i))

\* a header of HEADER_LENGTH bytes completed by the chunk that holds the
\* separator: no warning, and the content after the separator is read
C29_Witness ==
    /\ conv.class = "kwb_to_brf"
    /\ last.op = "convert_string"
    /\ last.before.stage = 0
    /\ Len(last.before.header) = HEADER_LENGTH - 1
    /\ Len(conv.header) = HEADER_LENGTH
    /\ conv.warnings = << >>
    /\ conv.input_buffer # << >>

IsTrailingData(w) == w = TrailingData

\* where in rem the content ends: at the first section separator that no
\* text separator follows
EndedAt(rem) ==
    CHOOSE i \in 1..Len(rem) :
        /\ rem[i] = SECTION_SEPARATOR
        /\ \A j \in (i + 1)..Len(rem) : rem[j] # TEXT_SEPARATOR
        /\ \A h \in 1..(i - 1) :
              rem[h] = SECTION_SEPARATOR => \E j \in (h + 1)..Len(rem) : rem[j] = TEXT_SEPARATOR

\* C30: the bytes a kwb_to_brf instance receives in the ended stage (a later
\* chunk, or the rest of the chunk in which the stage became ended), when
\* there are any, raise one warning and no error and give no output: the
\* call returns only what the content before the end gave, and the output
\* produced before is unchanged.
C30_TrailingDataWarned ==
    [][(conv.class = "kwb_to_brf" /\ ~conv.closed /\ last'.op = "convert_string"
           /\ conv'.stage = 2)
          => LET s == last'.s
                 rem == IF conv.stage = 0 THEN Tail0(s, Index(s, SECTION_SEPARATOR)) ELSE s
                 end == IF conv.stage = 2 THEN 0 ELSE EndedAt(rem)
                 content == IF conv.stage = 2 THEN << >>
                            ELSE Runs(conv, conv.input_buffer \o Head0(rem, end - 1))
             IN /\ last'.err = "none"
                /\ last'.out = content
                /\ output' = output \o content
                /\ SelectSeq(conv'.warnings, IsTrailingData)
                      = SelectSeq(conv.warnings, IsTrailingData)
                            \o (IF Tail0(rem, end) # << >> THEN <<TrailingData>> ELSE << >>)]_vars

\* a chunk received in the ended stage after content had been emitted
C30_Witness ==
    /\ conv.class = "kwb_to_brf"
    /\ last.op = "convert_string"
    /\ last.before.stage = 2
    /\ last.s # << >>
    /\ output # << >>
    /\ Len(SelectSeq(conv.warnings, IsTrailingData)) = 1

\* the last call had unicode_decode decode a non-empty chunk under a fixed
\* encoding
DecodeCall ==
    /\ last.op = "convert_string"
    /\ last.before.class = "unicode_to_brf"
    /\ ~last.before.closed
    /\ last.before.input_encoding # "None"
    /\ last.s # << >>

\* C31: with a fixed input encoding, unicode_decode returns the decoding of
\* the retained bytes and the chunk up to the start of an incomplete last
\* character, and retains exactly the bytes of that character (or nothing),
\* also when the retained bytes and the chunk together are one incomplete
\* character.
C31_DecodeRetainsTail ==
    (DecodeCall
        /\ (decode(AllData, last.before.input_encoding).ok
              \/ IsTruncation(decode(AllData, last.before.input_encoding).reason)))
        => LET d == decode(AllData, last.before.input_encoding)
               cut == IF d.ok THEN Len(AllData) ELSE d.start
               r == unicode_decode(last.before, last.s)
           IN /\ r.err = "none"
              /\ ~r.isNone
              /\ r.out = decode(Head0(AllData, cut), last.before.input_encoding).text
              /\ r.self.input_buffer = Tail0(AllData, cut)
              /\ conv.input_buffer = Tail0(AllData, cut)

\* decoding data after the retained bytes of the instance fails for want of
\* further bytes behind a clean prefix: unicode_decode calls itself on the
\* prefix
Redecodes(self, data) ==
    LET d == decode(self.input_buffer \o data, self.input_encoding)
    IN ~d.ok /\ IsTruncation(d.reason) /\ d.start > 0

\* the argument of that recursive call
Redecoded(self, data) ==
    Head0(self.input_buffer \o data,
          decode(self.input_buffer \o data, self.input_encoding).start)

\* C32: unicode_decode terminates and decodes again at most once: the call
\* it makes on the clean prefix makes no further recursive call.
C32_DecodesAgainOnce ==
    DecodeCall
        => /\ last.err # "RecursionError"
           /\ Redecodes(last.before, last.s)
                 => ~Redecodes(last.before, Redecoded(last.before, last.s))

\* the chain arguments of the find_converter_chain calls the request led to
RequestCalls ==
    find_converter_calls(request.source_format, request.output_format, << >>)

\* C33: find_converter_chain terminates for every registry, with cycles,
\* self-loops and parallel converters: no call is nested deeper than there
\* are registered converters, the chain passed down growing by one converter
\* not yet in it; every yielded chain is the chain argument of a call and
\* one converter more.
C33_SearchDepthBounded ==
    last.op = "find_converter"
        => /\ \A chain \in RequestCalls :
                 /\ Len(chain) <= Len(converters)
                 /\ \A i, j \in 1..Len(chain) : chain[i] = chain[j] => i = j
           /\ \A i \in 1..Len(Yielded) :
                 Head0(Yielded[i], Len(Yielded[i]) - 1) \in RequestCalls

\* a registry with a self-loop and two converters between the same formats,
\* searched down to a call that holds every converter in its chain
C33_Witness ==
    /\ last.op = "find_converter"
    /\ Len(converters) = 3
    /\ \E k \in 1..3 : converters[k].source_format = converters[k].output_format
    /\ \E k, m \in 1..3 :
          /\ k # m
          /\ converters[k].source_format = converters[m].source_format
          /\ converters[k].output_format = converters[m].output_format
    /\ \E chain \in RequestCalls : Len(chain) = 3

\* chain names distinct converters of the registry that lead from the
\* requested source format to the requested output format, each reading the
\* format the one before it writes
WellFormed(chain) ==
    \E p \in DistinctIndexes(Len(converters)) :
        /\ PathNames(p) = chain
        /\ IsPath(p, request.source_format, request.output_format)

\* C34: every chain find_converter_chain yields, and the chain find_converter
\* builds, is a well-formed path from the requested source to the requested
\* target without a repeated converter.
C34_YieldedAreSimplePaths ==
    last.op = "find_converter"
        => /\ \A i \in 1..Len(Yielded) : WellFormed(Yielded[i])
           /\ found # << >> => WellFormed(found)

\* a chain was built, and a chain of three converters was yielded as well
C34_Witness ==
    /\ last.op = "find_converter"
    /\ found # << >>
    /\ \E i \in 1..Len(Yielded) : Len(Yielded[i]) = 3

\* text with every single line break (LF or CR LF) that stands between two
\* non-break characters replaced by a space, prev being the character
\* before s (a break when there is none)
RECURSIVE SingleBreaksAsSpaces(_, _)
SingleBreaksAsSpaces(prev, s) ==
    IF s = << >> THEN << >>
    ELSE IF ~IsBreak(prev) /\ Len(s) >= 3 /\ s[1] = CR /\ s[2] = LF /\ ~IsBreak(s[3])
    THEN <<space_char>> \o SingleBreaksAsSpaces(space_char, Tail0(s, 2))
    ELSE IF ~IsBreak(prev) /\ Len(s) >= 2 /\ s[1] = LF /\ ~IsBreak(s[2])
    THEN <<space_char>> \o SingleBreaksAsSpaces(space_char, Tail(s))
    ELSE <<Head(s)>> \o SingleBreaksAsSpaces(Head(s), Tail(s))

\* C35: under linebreaks = double, for a stream no longer than a line, the
\* total output is the input with every single line break between two
\* non-break characters turned into a space and every run of two or more
\* breaks left as it is.
C35_SingleBreaksBecomeSpaces ==
    (ClosedOnce /\ conv.class = "reflow" /\ conv.linebreaks = "double"
        /\ Len(fed) <= conv.line_length)
        => (~failed /\ output = SingleBreaksAsSpaces(LF, fed))

\* the text_buffer of the last convert call after the line break
\* normalisation, before the first line is taken off it
Normalized ==
    normalize_linebreaks(last.before,
                         last.before.text_buffer \o unicode_decode(last.before, last.s).out)

\* the last call was a convert call of reflow on a buffer longer than a line
LongBuffer ==
    /\ last.op = "convert_string"
    /\ last.before.class = "reflow"
    /\ last.closes = 0
    /\ unicode_decode(last.before, last.s).err = "none"
    /\ ~unicode_decode(last.before, last.s).isNone
    /\ Len(Normalized) > last.before.line_length

\* C36: a buffer longer than the line length whose first explicit break
\* starts at an index not after the line length is cut at that break: the
\* text before it and all consecutive break characters are emitted as they
\* are, nothing is inserted, and the extraction goes on with what follows.
C36_ExplicitBreakKept ==
    (LongBuffer /\ first_break(Normalized) # -1
        /\ first_break(Normalized) <= last.before.line_length)
        => LET n == skip_breaks(Normalized, first_break(Normalized))
               w == reflow_lines(last.before, Tail0(Normalized, n), << >>)
           IN /\ last.err = "none"
              /\ last.out = unicode_encode(last.before, Head0(Normalized, n) \o w.lines)
              /\ conv.text_buffer = w.tb

\* the indexes up to the line length at which the buffer holds a blank
BlankIndexes ==
    { ci \in 0..last.before.line_length : Normalized[ci + 1] \in blank_chars }

GreatestBlank == CHOOSE ci \in BlankIndexes : \A cj \in BlankIndexes : cj <= ci

\* the buffer of the last call is longer than a line, the policy is wrap and
\* no explicit break starts before the limit
WrapCase ==
    /\ LongBuffer
    /\ last.before.word_wrap = "wrap"
    /\ (first_break(Normalized) = -1 \/ first_break(Normalized) >= last.before.line_length)

\* C37: under word_wrap = wrap, a buffer longer than the line length without
\* an explicit break before the limit is broken at the greatest index up to
\* the line length that holds a blank: the characters before it and a line
\* break are emitted, no join marker; when no such index holds a blank, the
\* first line_length - len(join marker) characters, the join marker and a
\* line break are emitted and the rest is kept.
C37_WrapAtNearestBlank ==
    WrapCase
        => /\ last.err = "none"
           /\ IF BlankIndexes # {}
              THEN LET line == unicode_encode(last.before,
                                   Head0(Normalized, GreatestBlank) \o linebreak_str)
                   IN Head0(last.out, Len(line)) = line
              ELSE LET ll == last.before.line_length - Len(last.before.split_str)
                       w == reflow_lines(last.before, Tail0(Normalized, ll), << >>)
                   IN /\ last.out = unicode_encode(last.before,
                                        Head0(Normalized, ll) \o last.before.split_str
                                            \o linebreak_str \o w.lines)
                      /\ conv.text_buffer = w.tb

\* a line broken at a blank inside it, the text before the blank emitted
C37_Witness ==
    /\ WrapCase
    /\ BlankIndexes # {}
    /\ GreatestBlank > 0
    /\ GreatestBlank < last.before.line_length
    /\ Normalized[GreatestBlank + 1] = SPACE
    /\ last.out # << >>

\* the length of the longest run of non-break characters of text, run being
\* the length of the run text continues
RECURSIVE LongestLine(_, _)
LongestLine(text, run) ==
    IF text = << >> THEN run
    ELSE IF IsBreak(Head(text))
    THEN (IF run > LongestLine(Tail(text), 0) THEN run ELSE LongestLine(Tail(text), 0))
    ELSE LongestLine(Tail(text), run + 1)

\* C38: while a stream is converted and closed once by a reflow whose
\* line_length is greater than the length of the join marker, every line of
\* the output so far (a maximal run of non-break characters, the join marker
\* counted) has at most line_length characters, and text_buffer holds at
\* most line_length characters after every call.
C38_LinesWithinLength ==
    (conv.class = "reflow" /\ late = 0 /\ closes <= 1
        /\ conv.line_length > Len(conv.split_str))
        => /\ Len(conv.text_buffer) <= conv.line_length
           /\ decode(output, conv.output_encoding).ok
           /\ LongestLine(decode(output, conv.output_encoding).text, 0) <= conv.line_length

\* a closed stream whose output holds a line that fills the line length with
\* its join marker
C38_Witness ==
    /\ conv.class = "reflow"
    /\ ClosedOnce
    /\ conv.line_length = 3
    /\ Contains(decode(output, conv.output_encoding).text, SPLIT_CHARACTER)
    /\ LongestLine(decode(output, conv.output_encoding).text, 0) = conv.line_length

\* C39: reflow.convert terminates for every input, every positive
\* line_length and every word_wrap policy, every iteration of the loop that
\* extracts the lines leaving text_buffer shorter than it found it, also when
\* line_length is not greater than the length of the join marker.
C39_ConvertTerminates ==
    (last.op \in {"convert_string", "close"} /\ last.before.class = "reflow")
        => last.err # "nontermination"

\* data, or its prefix before a truncated tail, decodes without error
DecodesCleanly(data, encoding) ==
    \/ decode(data, encoding).ok
    \/ /\ IsTruncation(decode(data, encoding).reason)
       /\ decode(SubSeq(data, 1, decode(data, encoding).start), encoding).ok

\* C40: the encoding guess_encoding_of returns for a chunk, which the
\* instance keeps as its input_encoding, is one under which the chunk or its
\* prefix before a truncated tail decodes without error, also when every
\* candidate that decodes has a Braille count of zero.
C40_GuessDecodesCleanly ==
    Guessed => /\ conv.input_encoding = guess_encoding_of(last.s).encoding
               /\ DecodesCleanly(last.s, conv.input_encoding)

====
